---- MODULE Spec2Model ----
(***************************************************************************)
(* Reliability layer of the browser-automation agent: the file-backed task *)
(* store (src/infra/io.js), the per-target lock manager, the scheduler     *)
(* (loadNextTask) and the engine loop (index.js).                          *)
(*                                                                         *)
(* Time is counted in ticks.  Timestamps that the code keeps as ISO        *)
(* strings and compares with localeCompare (meta.created_at) are kept as   *)
(* fixed-width digit sequences; timestamps the code converts with          *)
(* Date.parse (state.started_at, policy.execute_after) are tick numbers,   *)
(* wrapped in a sequence so that <<>> stands for null.                     *)
(***************************************************************************)
EXTENDS Integers, Sequences, FiniteSets, TLC

VARIABLES
    disk,              \* queue directory: task id -> content of <id>.json
    lockFile,          \* target -> content of RUNNING_<target>.lock
    alive,             \* OS process table: pid -> BOOLEAN
    now,               \* wall clock (ticks)
    control,           \* controle.json: "RUN" or "PAUSED"
    globalQueueCache,  \* per process: <<>> (null) or <<snapshot>>
    isCacheDirty,      \* per process
    lastFullScan,      \* per process
    pc,                \* per process: position in the engine loop / lock call
    task,              \* per process: the engine's local task object (<<>> or <<record>>)
    lockArg,           \* per process: arguments of the running acquireLock call
    lockSeen,          \* per process: what safeReadJSON(lockFile) returned
    call,              \* per process: bookkeeping of the running acquireLock call
    pass,              \* record of the last loadNextTask pass
    io,                \* state of one atomicWrite in progress (write model)
    pickups,           \* per task: RUNNING marks and prompts sent since (re)creation
    retries,           \* retry-reset requests served so far
    intake,            \* hand-written queue files: quarantine directory and last pass
    orch,              \* system.js: the ConnectionOrchestrator and its browser
    drv,               \* ChatGPTDriver.js: one waitForCompletion call
    attempt,           \* index.js: one attempt at a task, from the collection loop on
    scan               \* io.js: the getQueue calls in progress in one process

vars == <<disk, lockFile, alive, now, control, globalQueueCache, isCacheDirty,
          lastFullScan, pc, task, lockArg, lockSeen, call, pass, io, pickups,
          retries, intake, orch, drv, attempt, scan>>

(***************************************************************************)
(* Bounds of the model                                                     *)
(***************************************************************************)
MaxTime == 3          \* the clock stops ticking here
MaxDeps == 2          \* longest dependency list drawn
MaxRetries == 1       \* retry-reset requests served
MaxCrashes == 1       \* engine processes that may die
MaxVersions == 3      \* saveTask calls on one task file
MaxBreaks == 2        \* lock breaks counted in one acquireLock call

(***************************************************************************)
(* Program constants (ticks)                                               *)
(***************************************************************************)
CACHE_HEARTBEAT_MS == 1
RUNNING_RECOVERY_MS == 2

Engines == {1, 2}             \* pids of the engine processes
DeadPid == Cardinality(Engines) + 1   \* pid of a process that died before the start
Pids == Engines \cup {DeadPid}
Targets == {"chatgpt", "gemini"}
TaskIds == {"T0", "T1", "T2"}

Null == <<>>
Some(x) == <<x>>

ZombieMsg == "Timeout de Recuperacao (Zumbi)"
SkipMsg == "Dependencia falhou ou foi pulada."

(***************************************************************************)
(* Small helpers                                                           *)
(***************************************************************************)
Min2(a, b) == IF a < b THEN a ELSE b
Max2(a, b) == IF a > b THEN a ELSE b

\* String.prototype.localeCompare on two equally long digit strings:
\* the first differing position decides.
RECURSIVE localeCompareFrom(_, _, _)
localeCompareFrom(a, b, i) ==
    IF i > Len(a) \/ i > Len(b)
    THEN (IF Len(a) < Len(b) THEN -1 ELSE IF Len(a) > Len(b) THEN 1 ELSE 0)
    ELSE IF a[i] < b[i] THEN -1
    ELSE IF a[i] > b[i] THEN 1
    ELSE localeCompareFrom(a, b, i + 1)

localeCompare(a, b) == localeCompareFrom(a, b, 1)

\* The instant a created_at string denotes.
RECURSIVE TsValueFrom(_, _, _)
TsValueFrom(s, i, acc) ==
    IF i > Len(s) THEN acc ELSE TsValueFrom(s, i + 1, acc * 10 + s[i])

TsValue(s) == TsValueFrom(s, 1, 0)

(***************************************************************************)
(* schemas.js: parseTask on a record that already has the V4 blocks.       *)
(* The only transform that can change such a record is the priority clamp. *)
(***************************************************************************)
parseTask(raw) ==
    [raw EXCEPT !.priority = Max2(0, Min2(100, raw.priority))]

NewTask(id, prio, created, target, deps, after, status, started) ==
    [id |-> id, priority |-> prio, created_at |-> created, target |-> target,
     deps |-> deps, execute_after |-> after,
     status |-> status, attempts |-> 0, started_at |-> started,
     last_error |-> "", history |-> <<>>]

(***************************************************************************)
(* io.js: loadNextTask                                                     *)
(***************************************************************************)

\* step 1, the zombie test of one task
IsZombie(t, time) ==
    /\ t.status = "RUNNING"
    /\ t.started_at # Null
    /\ time - t.started_at[1] > RUNNING_RECOVERY_MS

\* the recovery without its history event
RecoverZombieNoEvent(t) ==
    [t EXCEPT !.status = "FAILED", !.last_error = ZombieMsg]

RecoverZombie(t) ==
    [t EXCEPT !.status = "FAILED",
              !.last_error = ZombieMsg,
              !.history = Append(@, "SYSTEM_RECOVERY")]

\* step 1 over the whole snapshot (each task only touches itself)
ZombieSweep(q, time) ==
    [id \in DOMAIN q |-> IF IsZombie(q[id], time) THEN RecoverZombie(q[id]) ELSE q[id]]

\* the dependency loop of the filter callback: "ok", "blocked" or "failed"
RECURSIVE DepScan(_, _, _, _)
DepScan(q, deps, i, isBlocked) ==
    IF i > Len(deps)
    THEN (IF isBlocked THEN "blocked" ELSE "ok")
    ELSE IF deps[i] \notin DOMAIN q
    THEN "blocked"
    ELSE IF q[deps[i]].status \in {"FAILED", "SKIPPED"}
    THEN "failed"
    ELSE DepScan(q, deps, i + 1, isBlocked \/ q[deps[i]].status # "DONE")

\* the filter callback without the time-lock test
FilterVerdictNoTimeLock(q, id, time) ==
    LET t == q[id] IN
    IF t.status # "PENDING" THEN "no"
    ELSE IF Len(t.deps) = 0 THEN "yes"
    ELSE LET d == DepScan(q, t.deps, 1, FALSE) IN
         IF d = "failed" THEN "skip"
         ELSE IF d = "blocked" THEN "no"
         ELSE "yes"

\* the filter callback applied to task id of snapshot q:
\* "no" (not eligible), "skip" (mark SKIPPED and save) or "yes"
FilterVerdict(q, id, time) ==
    LET t == q[id] IN
    IF t.status # "PENDING" THEN "no"
    ELSE IF t.execute_after # Null /\ t.execute_after[1] > time THEN "no"
    ELSE IF Len(t.deps) = 0 THEN "yes"
    ELSE LET d == DepScan(q, t.deps, 1, FALSE) IN
         IF d = "failed" THEN "skip"
         ELSE IF d = "blocked" THEN "no"
         ELSE "yes"

\* step 2: allTasks.filter(...) in array order; the callback mutates the
\* snapshot, so later elements see earlier skips.
RECURSIVE EligibilityFilter(_, _, _, _, _)
EligibilityFilter(q, order, i, time, acc) ==
    IF i > Len(order)
    THEN [q |-> q, eligible |-> acc]
    ELSE LET id == order[i]
             v == FilterVerdict(q, id, time)
         IN IF v = "skip"
            THEN EligibilityFilter(
                    [q EXCEPT ![id] = [@ EXCEPT !.status = "SKIPPED", !.last_error = SkipMsg]],
                    order, i + 1, time, acc)
            ELSE IF v = "yes"
            THEN EligibilityFilter(q, order, i + 1, time, Append(acc, id))
            ELSE EligibilityFilter(q, order, i + 1, time, acc)

\* the comparator with the operands of the priority difference exchanged
SortCompareAscending(a, b) ==
    IF b.priority # a.priority
    THEN a.priority - b.priority
    ELSE localeCompare(a.created_at, b.created_at)

\* the comparator of step 3: negative when a goes first
SortCompare(a, b) ==
    IF b.priority # a.priority
    THEN b.priority - a.priority
    ELSE localeCompare(a.created_at, b.created_at)

\* Array.prototype.sort (stable) as an insertion sort driven by the comparator
RECURSIVE InsertSorted(_, _, _)
InsertSorted(q, sorted, id) ==
    IF sorted = <<>> THEN <<id>>
    ELSE IF SortCompare(q[id], q[Head(sorted)]) < 0
    THEN <<id>> \o sorted
    ELSE <<Head(sorted)>> \o InsertSorted(q, Tail(sorted), id)

RECURSIVE SortEligible(_, _, _, _)
SortEligible(q, elig, i, acc) ==
    IF i > Len(elig) THEN acc
    ELSE SortEligible(q, elig, i + 1, InsertSorted(q, acc, elig[i]))

\* loadNextTask on the snapshot q whose array order is `order`:
\* the mutated snapshot, the ids saved, and the task returned (Null for none)
loadNextTask(q, order, time) ==
    LET swept == ZombieSweep(q, time)
        f == EligibilityFilter(swept, order, 1, time, <<>>)
        sorted == SortEligible(f.q, f.eligible, 1, <<>>)
    IN [q |-> f.q,
        saved |-> {id \in DOMAIN q : f.q[id] # q[id]},
        eligible |-> f.eligible,
        ret |-> IF sorted = <<>> THEN Null ELSE Some(sorted[1])]

\* all array orders of a set of ids (readdir order is not specified)
Orders(S) ==
    {o \in [1..Cardinality(S) -> S] : \A i, j \in 1..Cardinality(S) : i # j => o[i] # o[j]}


(***************************************************************************)
(* io.js: lock manager.  A lock file is absent, or was created by an       *)
(* exclusive open and not yet written (empty), or holds a lock record.     *)
(***************************************************************************)
NoLock == [kind |-> "none", taskId |-> "", pid |-> 0]
EmptyLock(p) == [kind |-> "empty", taskId |-> "", pid |-> p]
LockRec(tid, p) == [kind |-> "rec", taskId |-> tid, pid |-> p]

NoArg == [taskId |-> "", target |-> "chatgpt"]

\* the probe of the process table left out: every pid counts as alive
isProcessAliveNoProbe(pid) == TRUE

\* process.kill(pid, 0) succeeds exactly for a pid in the process table
isProcessAlive(pid) == pid # 0 /\ alive[pid]

\* line 264, first half: open(lockFile, O_CREAT | O_EXCL).  EEXIST leads to
\* the catch block.
AcqOpen(p) ==
    /\ alive[p] /\ pc[p] = "acq"
    /\ LET tgt == lockArg[p].target IN
       IF lockFile[tgt].kind = "none"
       THEN /\ lockFile' = [lockFile EXCEPT ![tgt] = EmptyLock(p)]
            /\ pc' = [pc EXCEPT ![p] = "acqWrite"]
       ELSE /\ pc' = [pc EXCEPT ![p] = "acqRead"]
            /\ UNCHANGED lockFile
    /\ UNCHANGED <<lockArg, lockSeen>>

\* line 264, second half: the record is written through the descriptor the
\* open returned; it shows under the lock path only if the path still names
\* that file.  Then "return true".
AcqWrite(p) ==
    /\ alive[p] /\ pc[p] = "acqWrite"
    /\ LET tgt == lockArg[p].target IN
       lockFile' = IF lockFile[tgt] = EmptyLock(p)
                   THEN [lockFile EXCEPT ![tgt] = LockRec(lockArg[p].taskId, p)]
                   ELSE lockFile
    /\ pc' = [pc EXCEPT ![p] = "acqTrue"]
    /\ UNCHANGED <<lockArg, lockSeen>>

\* line 267: safeReadJSON(lockFile).  A missing file reads as null; an empty
\* file is moved to the quarantine directory and reads as null; null makes
\* acquireLock return false.
AcqRead(p) ==
    /\ alive[p] /\ pc[p] = "acqRead"
    /\ LET tgt == lockArg[p].target
           f == lockFile[tgt]
       IN IF f.kind = "none"
          THEN /\ pc' = [pc EXCEPT ![p] = "acqFalse"]
               /\ UNCHANGED <<lockFile, lockSeen>>
          ELSE IF f.kind = "empty"
          THEN /\ lockFile' = [lockFile EXCEPT ![tgt] = NoLock]
               /\ pc' = [pc EXCEPT ![p] = "acqFalse"]
               /\ UNCHANGED lockSeen
          ELSE /\ lockSeen' = [lockSeen EXCEPT ![p] = f]
               /\ pc' = [pc EXCEPT ![p] = "acqCheck"]
               /\ UNCHANGED lockFile
    /\ UNCHANGED lockArg

\* lines 269-274: the liveness test of the owner that was read; a dead owner
\* gets the lock file unlinked (whatever it holds by now; an unlink that
\* fails is swallowed by the try/catch of line 271) and the call starts
\* over.
AcqCheck(p) ==
    /\ alive[p] /\ pc[p] = "acqCheck"
    /\ LET tgt == lockArg[p].target IN
       IF ~isProcessAlive(lockSeen[p].pid)
       THEN /\ \/ lockFile' = [lockFile EXCEPT ![tgt] = NoLock]
               \/ lockFile[tgt] # NoLock /\ UNCHANGED lockFile
            /\ pc' = [pc EXCEPT ![p] = "acq"]
       ELSE /\ pc' = [pc EXCEPT ![p] = "acqFalse"]
            /\ UNCHANGED lockFile
    /\ lockSeen' = [lockSeen EXCEPT ![p] = NoLock]
    /\ UNCHANGED lockArg

\* one step of a running acquireLock call
acquireLock(p) == AcqOpen(p) \/ AcqWrite(p) \/ AcqRead(p) \/ AcqCheck(p)

\* releaseLock without the existsSync test and without the try/catch: the
\* unlink of a missing file raises ENOENT
releaseLockUnguarded(lf, tgt) ==
    [lockFile |-> [lf EXCEPT ![tgt] = NoLock], raised |-> lf[tgt].kind = "none"]

\* lines 278-281: releaseLock(target) on the lock table lf: the file is
\* unlinked if it exists, and nothing is raised
releaseLockCall(lf, tgt) ==
    [lockFile |-> [lf EXCEPT ![tgt] = NoLock], raised |-> FALSE]

\* lines 278-281: the new lock table after releaseLock(target)
releaseLock(tgt) == releaseLockCall(lockFile, tgt).lockFile

LockPcs == {"acq", "acqWrite", "acqRead", "acqCheck"}

(***************************************************************************)
(* Lock protocol on its own: every live process calls acquireLock and,     *)
(* when it got the lock, releaseLock, over and over.                       *)
(***************************************************************************)
NoCall == [start |-> NoLock, ownerLive |-> FALSE, alone |-> FALSE, breaks |-> 0]

OthersQuiet(p, tgt) ==
    \A q \in Engines \ {p} : ~(alive[q] /\ pc[q] \in LockPcs /\ lockArg[q].target = tgt)

LockFrame == UNCHANGED <<disk, now, control, globalQueueCache, isCacheDirty,
                         lastFullScan, task, pass, io, pickups, retries,
                         intake, orch, drv, attempt, scan>>

\* the call of acquireLock(taskId, target)
LockCall(p) ==
    /\ alive[p] /\ pc[p] = "idle"
    /\ \E tid \in TaskIds, tgt \in Targets :
         /\ lockArg' = [lockArg EXCEPT ![p] = [taskId |-> tid, target |-> tgt]]
         /\ call' = [q \in Pids |->
                       IF q = p
                       THEN [start |-> lockFile[tgt],
                             ownerLive |-> IF lockFile[tgt].kind = "rec"
                                           THEN alive[lockFile[tgt].pid] ELSE FALSE,
                             alone |-> OthersQuiet(p, tgt),
                             breaks |-> 0]
                       ELSE IF lockArg[q].target = tgt /\ pc[q] \in LockPcs
                       THEN [call[q] EXCEPT !.alone = FALSE]
                       ELSE call[q]]
    /\ pc' = [pc EXCEPT ![p] = "acq"]
    /\ UNCHANGED <<lockFile, lockSeen, alive>>
    /\ LockFrame

\* one step of the call; the lock breaks of the call (line 272) are counted
LockStep(p) ==
    /\ acquireLock(p)
    /\ call' = [call EXCEPT ![p].breaks =
                  IF pc[p] = "acqCheck" /\ pc'[p] = "acq"
                  THEN Min2(@ + 1, MaxBreaks)
                  ELSE IF pc'[p] \in LockPcs THEN @ ELSE 0]
    /\ UNCHANGED alive
    /\ LockFrame

\* acquireLock returned false: the caller goes on without the lock
LockDenied(p) ==
    /\ alive[p] /\ pc[p] = "acqFalse"
    /\ pc' = [pc EXCEPT ![p] = "idle"]
    /\ UNCHANGED <<lockFile, lockArg, lockSeen, call, alive>>
    /\ LockFrame

\* acquireLock returned true: the caller later calls releaseLock(target)
LockRelease(p) ==
    /\ alive[p] /\ pc[p] = "acqTrue"
    /\ lockFile' = releaseLock(lockArg[p].target)
    /\ pc' = [pc EXCEPT ![p] = "idle"]
    /\ call' = [q \in Pids |->
                  IF q # p /\ lockArg[q].target = lockArg[p].target /\ pc[q] \in LockPcs
                  THEN [call[q] EXCEPT !.alone = FALSE] ELSE call[q]]
    /\ UNCHANGED <<lockArg, lockSeen, alive>>
    /\ LockFrame

\* a process is killed (power loss, forced termination) at any point
LockCrash(p) ==
    /\ alive[p]
    /\ Cardinality({q \in Engines : ~alive[q]}) < MaxCrashes
    /\ alive' = [alive EXCEPT ![p] = FALSE]
    /\ pc' = [pc EXCEPT ![p] = "dead"]
    /\ UNCHANGED <<lockFile, lockArg, lockSeen, call>>
    /\ LockFrame

NoPass == [before |-> <<>>, q0 |-> <<>>, time |-> 0, ret |-> Null, done |-> FALSE]

\* content of a file
Absent == [kind |-> "absent", ver |-> 0]
Empty == [kind |-> "empty", ver |-> 0]
Partial(v) == [kind |-> "partial", ver |-> v]
Full(v) == [kind |-> "full", ver |-> v]

\* the task file and the temporary siblings that can exist next to it
DstPath == <<"T1.json", 0>>
TmpPaths == {<<"T1.json.tmp", p>> : p \in Engines}
Paths == {DstPath} \cup TmpPaths

NoIo == [files |-> [f \in Paths |-> Absent],
         wpc |-> [p \in Engines |-> "idle"],
         arg |-> [p \in Engines |-> 0],
         attempts |-> [p \in Engines |-> 0],
         result |-> [p \in Engines |-> "none"],
         started |-> {},
         installed |-> FALSE,
         seen |-> Absent,
         quarantined |-> FALSE]

\* nothing quarantined, nothing submitted, no engine step taken yet
NoIntake == [corrupted |-> {}, last |-> "none", scanned |-> FALSE, files |-> {},
             unreadable |-> {}, listed |-> {}, threw |-> "none", rejected |-> Null,
             supplied |-> <<>>]

\* system.js lines 104-112: the orchestrator as constructed, Chrome not yet
\* started; browser 0 stands for null
NoOrch == [state |-> "INIT", browser |-> 0, page |-> Null, retryCount |-> 0,
           lastIssue |-> "", pc |-> "idle", used |-> 0, local |-> Null,
           err |-> "", delay |-> 0, ret |-> Null,
           chrome |-> FALSE, conn |-> 0, gens |-> 0, tab |-> 0, tabs |-> 0,
           lost |-> FALSE, disconnected |-> <<>>, targetdestroyed |-> <<>>]

NoDrv == [phase |-> "idle", STABLE_CYCLES |-> 0, lastText |-> "", stableCycles |-> 0,
          seen |-> <<>>, ret |-> Null, err |-> "", frozen |-> 0, rejected |-> FALSE,
          overdue |-> FALSE, reset |-> FALSE]

NoAttempt == [pc |-> "idle", outPath |-> Null, cycles |-> 0, lastChunkHash |-> "",
              totalResponseLength |-> 0, raised |-> <<>>, taskErr |-> <<>>,
              pid |-> FALSE, kills |-> 0, cleanups |-> 0,
              consecutiveInfraFailures |-> 0, consecutiveTaskFailures |-> 0,
              rounds |-> 0, appended |-> 0, prompts |-> 0]

CacheCalls == {"a", "b"}       \* getQueue calls that may overlap in one process
IdleCall == [pc |-> "idle", now |-> 0, results |-> Null, ret |-> Null]
NoScan == [calls |-> [k \in CacheCalls |-> IdleCall], changedAt |-> <<>>]

InitRest ==
    /\ alive = [p \in Pids |-> p \in Engines]
    /\ now = 0
    /\ control = "RUN"
    /\ globalQueueCache = [p \in Pids |-> Null]
    /\ isCacheDirty = [p \in Pids |-> TRUE]
    /\ lastFullScan = [p \in Pids |-> 0]
    /\ task = [p \in Pids |-> Null]
    /\ lockArg = [p \in Pids |-> NoArg]
    /\ lockSeen = [p \in Pids |-> NoLock]
    /\ call = [p \in Pids |-> NoCall]
    /\ pass = NoPass
    /\ io = NoIo
    /\ pickups = [id \in TaskIds |-> [run |-> 0, sent |-> 0]]
    /\ retries = 0
    /\ intake = NoIntake
    /\ drv = NoDrv
    /\ attempt = NoAttempt
    /\ scan = NoScan

InitCommon ==
    /\ InitRest
    /\ orch = NoOrch

\* no lock file, or a stale one left by the process that died earlier
InitLock ==
    /\ InitCommon
    /\ disk = <<>>
    /\ lockFile \in [Targets -> {NoLock} \cup {LockRec(tid, DeadPid) : tid \in TaskIds}]
    /\ pc = [p \in Pids |-> IF p \in Engines THEN "idle" ELSE "dead"]

NextLock ==
    \E p \in Engines :
        \/ LockCall(p)
        \/ LockStep(p)
        \/ LockDenied(p)
        \/ LockRelease(p)
        \/ LockCrash(p)

SpecLock == InitLock /\ [][NextLock]_vars

\* p holds the lock of tgt: its acquireLock returned true and it has not
\* called releaseLock yet
Holds(p, tgt) == alive[p] /\ pc[p] = "acqTrue" /\ lockArg[p].target = tgt

\* C1: at most one live process at a time holds the lock of a target.
MutualExclusion ==
    \A tgt \in Targets : Cardinality({p \in Engines : Holds(p, tgt)}) <= 1


OneBreakAtMost ==
    \A p \in Engines : pc[p] \in LockPcs => call[p].breaks <= 1


\* two calls of acquireLock on one target raced from a state with no lock
\* file: p's call started with the file absent, q's call started before p's
\* record was in the file, and each ran while the other was running
Raced(p, q) ==
    /\ p # q /\ alive[p] /\ alive[q]
    /\ pc[p] \in {"acqTrue", "acqFalse"} /\ pc[q] \in {"acqTrue", "acqFalse"}
    /\ lockArg[p].target = lockArg[q].target
    /\ lockArg[p].taskId # lockArg[q].taskId
    /\ call[p].start = NoLock
    /\ call[q].start.kind \in {"none", "empty"}
    /\ ~call[p].alone /\ ~call[q].alone

\* C11: of two live processes that race to acquireLock on a target that had
\* no lock file, for different task ids, exactly one gets true, the other
\* false, and the lock file that remains names the winner's task id and pid.
RaceHasOneWinner ==
    \A p, q \in Engines :
        Raced(p, q) =>
            /\ (pc[p] = "acqTrue") # (pc[q] = "acqTrue")
            /\ LET w == IF pc[p] = "acqTrue" THEN p ELSE q IN
               lockFile[lockArg[p].target] = LockRec(lockArg[w].taskId, w)


(***************************************************************************)
(* io.js: getQueue and saveTask as seen by the other processes             *)
(***************************************************************************)

\* lines 131-148: the cache is served unless it is dirty, older than the
\* heartbeat, or not built yet; otherwise the directory is scanned.
getQueue(p) ==
    LET needsHeartbeat == now - lastFullScan[p] > CACHE_HEARTBEAT_MS
        useCache == ~isCacheDirty[p] /\ ~needsHeartbeat /\ globalQueueCache[p] # Null
    IN [q |-> IF useCache THEN globalQueueCache[p][1] ELSE disk,
        scanned |-> ~useCache]

\* lines 155-161: the queue directory after saveTask(t): the validated record
\* replaces <id>.json in one rename.
saveTask(d, t) ==
    [id \in DOMAIN d \cup {t.id} |-> IF id = t.id THEN parseTask(t) ELSE d[id]]

\* the queue directory after the saves of one loadNextTask pass
RECURSIVE SaveAll(_, _, _)
SaveAll(d, q, ids) ==
    IF ids = {} THEN d
    ELSE LET id == CHOOSE x \in ids : TRUE
         IN SaveAll(saveTask(d, q[id]), q, ids \ {id})

\* loadNextTask called by process p with the array order `order`: what it
\* leaves in the directory and in the process's cache variables
PassEffect(p, g, r) ==
    /\ disk' = SaveAll(disk, r.q, r.saved)
    /\ globalQueueCache' = [globalQueueCache EXCEPT ![p] = Some(r.q)]
    /\ isCacheDirty' = [isCacheDirty EXCEPT ![p] =
                           IF g.scanned THEN r.saved # {} ELSE @ \/ r.saved # {}]
    /\ lastFullScan' = [lastFullScan EXCEPT ![p] = IF g.scanned THEN now ELSE @]

(***************************************************************************)
(* Scheduler on its own: one process runs loadNextTask passes over queues  *)
(* drawn from bounded sets, while the clock advances.                      *)
(***************************************************************************)
Priorities == {1, 2}
CreatedAts == {<<0, 9>>, <<1, 0>>}
Statuses == {"PENDING", "RUNNING", "DONE", "FAILED", "PAUSED", "SKIPPED", "STALLED"}

\* dependency lists of up to MaxDeps ids
DepLists(S) == UNION {[1..n -> S] : n \in 0..MaxDeps}

SchedScheduler == CHOOSE p \in Engines : \A q \in Engines : p <= q
SchedStart == MaxTime - 1

\* the task under observation: PENDING, any dependency list over the others
SchedDependents ==
    {NewTask("T1", pr, cr, "chatgpt", deps, after, "PENDING", Null) :
        pr \in Priorities, cr \in CreatedAts, deps \in DepLists({"T0", "T2"}),
        after \in {Null, Some(SchedStart), Some(MaxTime + 1)}}

\* a possible prerequisite: in any status
SchedPrerequisites(id, depsets) ==
    {NewTask(id, pr, cr, "chatgpt", <<>>, Null, "PENDING", Null) :
        pr \in Priorities, cr \in CreatedAts}
    \cup {NewTask(id, 1, <<0, 9>>, "chatgpt", deps, Null, "PENDING", Null) :
            deps \in depsets}
    \cup {NewTask(id, 1, <<0, 9>>, "chatgpt", <<>>, Null, st, Null) :
            st \in {"DONE", "FAILED", "SKIPPED"}}
    \cup {[NewTask(id, 1, <<0, 9>>, "chatgpt", <<>>, Null, "RUNNING", started)
             EXCEPT !.attempts = 1] :
            started \in {Null, Some(SchedStart - RUNNING_RECOVERY_MS - 1),
                         Some(SchedStart - RUNNING_RECOVERY_MS), Some(SchedStart)}}

SchedQueues ==
    {[id \in present |-> CASE id = "T0" -> t0 [] id = "T1" -> t1 [] OTHER -> t2] :
        present \in {S \in SUBSET TaskIds : "T1" \in S},
        t0 \in SchedPrerequisites("T0", {<<>>}),
        t1 \in SchedDependents,
        t2 \in SchedPrerequisites("T2", {<<>>, <<"T0">>})}

InitSched ==
    /\ alive = [p \in Pids |-> p = SchedScheduler]
    /\ now = SchedStart
    /\ control = "RUN"
    /\ globalQueueCache = [p \in Pids |-> Null]
    /\ isCacheDirty = [p \in Pids |-> TRUE]
    /\ lastFullScan = [p \in Pids |-> 0]
    /\ task = [p \in Pids |-> Null]
    /\ lockArg = [p \in Pids |-> NoArg]
    /\ lockSeen = [p \in Pids |-> NoLock]
    /\ call = [p \in Pids |-> NoCall]
    /\ pass = NoPass
    /\ io = NoIo
    /\ pickups = [id \in TaskIds |-> [run |-> 0, sent |-> 0]]
    /\ retries = 0
    /\ intake = NoIntake
    /\ orch = NoOrch
    /\ drv = NoDrv
    /\ attempt = NoAttempt
    /\ scan = NoScan
    /\ lockFile = [tgt \in Targets |-> NoLock]
    /\ pc = [p \in Pids |-> IF p = SchedScheduler THEN "loop" ELSE "dead"]
    /\ disk \in SchedQueues

SchedFrame == UNCHANGED <<lockFile, alive, control, pc, task, lockArg, lockSeen,
                          call, io, pickups, retries, intake, orch, drv, attempt, scan>>

\* one call of loadNextTask
SchedPass ==
    LET p == SchedScheduler
        g == getQueue(p)
    IN \E order \in Orders(DOMAIN g.q) :
         LET r == loadNextTask(g.q, order, now) IN
         /\ PassEffect(p, g, r)
         /\ pass' = [before |-> disk, q0 |-> g.q, time |-> now,
                     ret |-> r.ret, done |-> TRUE]
         /\ UNCHANGED now
         /\ SchedFrame

SchedTick ==
    /\ now < MaxTime
    /\ now' = now + 1
    /\ UNCHANGED <<disk, globalQueueCache, isCacheDirty, lastFullScan, pass>>
    /\ SchedFrame

NextSched == SchedPass \/ SchedTick

SpecSched == InitSched /\ [][NextSched]_vars

\* the eligibility rule of the scheduler, stated on a snapshot
Qualifies(q, id, time) ==
    /\ q[id].status = "PENDING"
    /\ q[id].execute_after = Null \/ q[id].execute_after[1] <= time
    /\ \A i \in 1..Len(q[id].deps) :
         /\ q[id].deps[i] \in DOMAIN q
         /\ q[q[id].deps[i]].status = "DONE"

\* C8: the task a pass returns is PENDING in the snapshot of that pass, has no
\* not-before time in the future and only dependencies that exist and are
\* DONE; with no such task the pass returns none.
ReturnedTaskQualifies ==
    pass.done =>
        /\ pass.ret # Null =>
             /\ pass.ret[1] \in DOMAIN pass.q0
             /\ Qualifies(pass.q0, pass.ret[1], pass.time)
        /\ (\A id \in DOMAIN pass.q0 : ~Qualifies(pass.q0, id, pass.time))
             => pass.ret = Null

\* a pass returned a task that has dependencies, all DONE
ReturnedTaskQualifiesWitness ==
    /\ pass.done
    /\ pass.ret # Null
    /\ Len(pass.q0[pass.ret[1]].deps) = MaxDeps
    /\ \E id \in DOMAIN pass.q0 : id # pass.ret[1] /\ ~Qualifies(pass.q0, id, pass.time)


FailedDependencySkips ==
    pass.done =>
        \A id \in DOMAIN pass.q0 :
            LET t == pass.q0[id] IN
            ( /\ t.status = "PENDING"
              /\ t.execute_after = Null \/ t.execute_after[1] <= pass.time
              /\ \E i \in 1..Len(t.deps) :
                   /\ t.deps[i] \in DOMAIN pass.q0
                   /\ pass.q0[t.deps[i]].status \in {"FAILED", "SKIPPED"} )
            => /\ disk[id].status = "SKIPPED"
               /\ pass.ret # Some(id)

MaxRenameAttempts == 10

\* the temporary sibling of a write is written in place of the task file
tmpPathInPlace(p) == DstPath

\* line 70: `${filepath}.tmp.${process.pid}.${uuid}`
tmpPath(p) == <<"T1.json.tmp", p>>

WriteFrame == UNCHANGED <<disk, lockFile, alive, now, control, globalQueueCache,
                          isCacheDirty, lastFullScan, pc, task, lockArg, lockSeen,
                          call, pass, pickups, retries, intake, orch, drv, attempt, scan>>

\* saveTask(task): the record validates and atomicWrite is entered
WrCall(p) ==
    /\ io.wpc[p] = "idle"
    /\ Cardinality(io.started) < MaxVersions
    /\ LET v == Cardinality(io.started) + 1 IN
       io' = [io EXCEPT !.wpc[p] = "open", !.arg[p] = v, !.attempts[p] = 0,
                        !.result[p] = "none", !.started = @ \cup {v}]
    /\ WriteFrame

\* line 74, writeFileSync(tmp): the file is created (or truncated)
WrOpen(p) ==
    /\ io.wpc[p] = "open"
    /\ io' = [io EXCEPT !.files[tmpPath(p)] = Empty, !.wpc[p] = "write"]
    /\ WriteFrame

\* line 74: part of the document is on disk; the write may also fail here
WrData(p) ==
    /\ io.wpc[p] = "write"
    /\ \/ io' = [io EXCEPT !.files[tmpPath(p)] = Partial(io.arg[p]), !.wpc[p] = "write2"]
       \/ io' = [io EXCEPT !.wpc[p] = "cleanup"]
    /\ WriteFrame

\* line 74: the whole document is on disk
WrDataEnd(p) ==
    /\ io.wpc[p] = "write2"
    /\ io' = [io EXCEPT !.files[tmpPath(p)] = Full(io.arg[p]), !.wpc[p] = "rename"]
    /\ WriteFrame

\* lines 76-87: renameSync(tmp, filepath) replaces the task file in one step;
\* EPERM/EBUSY are retried while attempts < 10, any other error is thrown;
\* when the attempts are used up the loop ends and the function returns.
WrRename(p) ==
    /\ io.wpc[p] = "rename"
    /\ \/ io' = [io EXCEPT !.files = [@ EXCEPT ![tmpPath(p)] = Absent,
                                              ![DstPath] = io.files[tmpPath(p)]],
                           !.installed = TRUE,
                           !.wpc[p] = "idle", !.result[p] = "ok"]
       \/ IF io.attempts[p] + 1 < MaxRenameAttempts
          THEN io' = [io EXCEPT !.attempts[p] = @ + 1]
          ELSE io' = [io EXCEPT !.attempts[p] = @ + 1,
                                !.wpc[p] = "idle", !.result[p] = "ok"]
       \/ io' = [io EXCEPT !.wpc[p] = "cleanup"]
    /\ WriteFrame

\* lines 88-92: the catch block unlinks the temporary file and rethrows
WrCleanup(p) ==
    /\ io.wpc[p] = "cleanup"
    /\ io' = [io EXCEPT !.files[tmpPath(p)] = Absent,
                        !.wpc[p] = "idle", !.result[p] = "error"]
    /\ WriteFrame

\* the writing process dies
WrCrash(p) ==
    /\ io.wpc[p] \notin {"idle", "dead"}
    /\ io' = [io EXCEPT !.wpc[p] = "dead"]
    /\ WriteFrame

\* safeReadJSON(<id>.json) by a scan of the queue directory: a document that
\* does not parse is moved to corrupted/
WrRead ==
    /\ LET f == io.files[DstPath] IN
       IF f.kind \in {"empty", "partial"}
       THEN io' = [io EXCEPT !.files[DstPath] = Absent, !.quarantined = TRUE, !.seen = f]
       ELSE io' = [io EXCEPT !.seen = f]
    /\ io' # io
    /\ WriteFrame

InitWrite ==
    /\ InitCommon
    /\ disk = <<>>
    /\ lockFile = [tgt \in Targets |-> NoLock]
    /\ pc = [p \in Pids |-> IF p \in Engines THEN "idle" ELSE "dead"]

NextWrite ==
    \/ \E p \in Engines :
          \/ WrCall(p)
          \/ WrOpen(p)
          \/ WrData(p)
          \/ WrDataEnd(p)
          \/ WrRename(p)
          \/ WrCleanup(p)
          \/ WrCrash(p)
    \/ WrRead

SpecWrite == InitWrite /\ [][NextWrite]_vars

\* C4: whatever step a save has reached, and whether or not its process died
\* there, the task file is absent (if no save has been completed) or holds a
\* complete version handed to saveTask; a reader never sees anything else and
\* never has to quarantine the file.
AtomicReplace ==
    LET f == io.files[DstPath] IN
    /\ f.kind \in {"absent", "full"}
    /\ f.kind = "full" => f.ver \in io.started
    /\ f.kind = "absent" => ~io.installed
    /\ io.seen.kind \in {"absent", "full"}
    /\ ~io.quarantined

\* one process died with a half-written temporary file, another one in the
\* middle of its retries, and the reader has read a complete version
AtomicReplaceWitness ==
    /\ \E p \in Engines :
         /\ io.wpc[p] = "dead"
         /\ io.files[<<"T1.json.tmp", p>>].kind = "partial"
    /\ io.files[DstPath].kind = "full"
    /\ io.seen.kind = "full"
    /\ io.seen # io.files[DstPath]


\* C27: a save whose renames have all failed with EPERM or EBUSY, up to
\* the bound of attempts, ends with an error and leaves the task file as it
\* was; a save that reports success has put its version in the task file.
SaveFailureSurfaced ==
    [][\A p \in Engines :
         (io.wpc[p] = "rename" /\ io'.wpc[p] = "idle") =>
            /\ io'.result[p] = "ok" => io'.files[DstPath] = Full(io.arg[p])
            /\ io'.attempts[p] = MaxRenameAttempts =>
                  /\ io'.result[p] = "error"
                  /\ io'.files[DstPath] = io.files[DstPath]]_vars


(***************************************************************************)
(* index.js: the engine loop, one process per engine, over the shared      *)
(* queue directory and lock files; server.js: the retry-reset request.     *)
(***************************************************************************)

\* io.checkControlPause(): true while the control file says PAUSED
checkControlPause == control = "PAUSED"

EngineFrame == UNCHANGED <<call, pass, io, intake, orch, drv, attempt, scan>>

Bump(n) == Min2(n + 1, 2)

\* lines 88-92: paused, the loop sleeps IDLE_SLEEP and starts over
EnginePaused(p) ==
    /\ alive[p] /\ pc[p] = "loop"
    /\ checkControlPause
    /\ pc' = [pc EXCEPT ![p] = "paused"]
    /\ UNCHANGED <<disk, lockFile, alive, now, control, globalQueueCache, isCacheDirty,
                   lastFullScan, task, lockArg, lockSeen, pickups, retries>>
    /\ EngineFrame

EngineWake(p) ==
    /\ alive[p] /\ pc[p] = "paused"
    /\ pc' = [pc EXCEPT ![p] = "loop"]
    /\ UNCHANGED <<disk, lockFile, alive, now, control, globalQueueCache, isCacheDirty,
                   lastFullScan, task, lockArg, lockSeen, pickups, retries>>
    /\ EngineFrame

\* lines 122-137: loadNextTask, then parseTask of the task it returned; with
\* no task the loop sleeps and starts over
EngineLoad(p) ==
    /\ alive[p] /\ pc[p] = "loop"
    /\ ~checkControlPause
    /\ LET g == getQueue(p) IN
       \E order \in Orders(DOMAIN g.q) :
         LET r == loadNextTask(g.q, order, now) IN
         /\ PassEffect(p, g, r)
         /\ IF r.ret = Null
            THEN UNCHANGED <<pc, task, lockArg>>
            ELSE LET t == parseTask(r.q[r.ret[1]]) IN
                 /\ task' = [task EXCEPT ![p] = Some(t)]
                 /\ lockArg' = [lockArg EXCEPT ![p] = [taskId |-> t.id, target |-> t.target]]
                 /\ pc' = [pc EXCEPT ![p] = "acq"]
    /\ UNCHANGED <<lockFile, alive, now, control, lockSeen, pickups, retries>>
    /\ EngineFrame

\* line 140: the steps of io.acquireLock(task.meta.id, task.spec.target)
EngineLock(p) ==
    /\ acquireLock(p)
    /\ UNCHANGED <<disk, alive, now, control, globalQueueCache, isCacheDirty,
                   lastFullScan, task, pickups, retries>>
    /\ EngineFrame

\* lines 140-151: the lock was refused; io.acquireLock.lockData is undefined,
\* so nothing is reset; sleep and start over
EngineLockDenied(p) ==
    /\ alive[p] /\ pc[p] = "acqFalse"
    /\ pc' = [pc EXCEPT ![p] = "loop"]
    /\ task' = [task EXCEPT ![p] = Null]
    /\ lockArg' = [lockArg EXCEPT ![p] = NoArg]
    /\ UNCHANGED <<disk, lockFile, alive, now, control, globalQueueCache, isCacheDirty,
                   lastFullScan, lockSeen, pickups, retries>>
    /\ EngineFrame

\* lines 154-160: the task is marked RUNNING and saved, outside the try block
\* of the attempt: when saveTask throws, the outer catch takes over and the
\* loop starts again.
EngineMarkRunning(p) ==
    /\ alive[p] /\ pc[p] = "acqTrue"
    /\ LET t == [task[p][1] EXCEPT !.status = "RUNNING",
                                   !.started_at = Some(now),
                                   !.attempts = @ + 1]
       IN \/ /\ disk' = saveTask(disk, t)
             /\ isCacheDirty' = [isCacheDirty EXCEPT ![p] = TRUE]
             /\ task' = [task EXCEPT ![p] = Some(t)]
             /\ pickups' = [pickups EXCEPT ![t.id].run = Bump(@)]
             /\ pc' = [pc EXCEPT ![p] = "exec"]
          \/ /\ task' = [task EXCEPT ![p] = Null]
             /\ pc' = [pc EXCEPT ![p] = "loop"]
             /\ UNCHANGED <<disk, isCacheDirty, pickups>>
    /\ lockArg' = [lockArg EXCEPT ![p] = NoArg]
    /\ UNCHANGED <<lockFile, alive, now, control, globalQueueCache, lastFullScan,
                   lockSeen, retries>>
    /\ EngineFrame

\* lines 163-179: driver, prepareContext, resolveContext, then sendPrompt;
\* any of them may throw
EngineSend(p) ==
    /\ alive[p] /\ pc[p] = "exec"
    /\ \/ /\ pickups' = [pickups EXCEPT ![task[p][1].id].sent = Bump(@)]
          /\ pc' = [pc EXCEPT ![p] = "collect"]
       \/ /\ pc' = [pc EXCEPT ![p] = "catch"]
          /\ UNCHANGED pickups
    /\ UNCHANGED <<disk, lockFile, alive, now, control, globalQueueCache, isCacheDirty,
                   lastFullScan, task, lockArg, lockSeen, retries>>
    /\ EngineFrame

\* lines 181-258: the collection loop, the validation of the result, and
\* the save of the task as DONE; any of them may throw, the save included
\* (the local task object is DONE by then)
EngineCollect(p) ==
    /\ alive[p] /\ pc[p] = "collect"
    /\ \/ LET t == [task[p][1] EXCEPT !.status = "DONE"] IN
          /\ task' = [task EXCEPT ![p] = Some(t)]
          /\ disk' = saveTask(disk, t)
          /\ isCacheDirty' = [isCacheDirty EXCEPT ![p] = TRUE]
          /\ pc' = [pc EXCEPT ![p] = "finally"]
       \/ /\ pc' = [pc EXCEPT ![p] = "catch"]
          /\ UNCHANGED <<disk, isCacheDirty, task>>
    /\ UNCHANGED <<lockFile, alive, now, control, globalQueueCache, lastFullScan,
                   lockArg, lockSeen, pickups, retries>>
    /\ EngineFrame

\* lines 60-69
classifyAndSaveFailure(t) ==
    [t EXCEPT !.status = "FAILED",
              !.last_error = "EXECUTION",
              !.history = Append(@, "EXECUTION_FAILURE")]

\* lines 264-279: the catch block of the attempt; its own saveTask may throw
EngineCatch(p) ==
    /\ alive[p] /\ pc[p] = "catch"
    /\ LET t == classifyAndSaveFailure(task[p][1]) IN
       /\ task' = [task EXCEPT ![p] = Some(t)]
       /\ \/ /\ disk' = saveTask(disk, t)
             /\ isCacheDirty' = [isCacheDirty EXCEPT ![p] = TRUE]
          \/ UNCHANGED <<disk, isCacheDirty>>
    /\ pc' = [pc EXCEPT ![p] = "finallyErr"]
    /\ UNCHANGED <<lockFile, alive, now, control, globalQueueCache, lastFullScan,
                   lockArg, lockSeen, pickups, retries>>
    /\ EngineFrame

\* lines 281-284: finally, io.releaseLock(task.spec.target)
EngineFinally(p) ==
    /\ alive[p] /\ pc[p] \in {"finally", "finallyErr"}
    /\ lockFile' = releaseLock(task[p][1].target)
    /\ pc' = [pc EXCEPT ![p] = "loop"]
    /\ task' = [task EXCEPT ![p] = Null]
    /\ lockArg' = [lockArg EXCEPT ![p] = NoArg]
    /\ UNCHANGED <<disk, alive, now, control, globalQueueCache, isCacheDirty,
                   lastFullScan, lockSeen, pickups, retries>>
    /\ EngineFrame

\* the engine process is killed
EngineCrash(p) ==
    /\ alive[p]
    /\ Cardinality({q \in Engines : ~alive[q]}) < MaxCrashes
    /\ alive' = [alive EXCEPT ![p] = FALSE]
    /\ pc' = [pc EXCEPT ![p] = "dead"]
    /\ globalQueueCache' = [globalQueueCache EXCEPT ![p] = Null]
    /\ isCacheDirty' = [isCacheDirty EXCEPT ![p] = TRUE]
    /\ lastFullScan' = [lastFullScan EXCEPT ![p] = 0]
    /\ task' = [task EXCEPT ![p] = Null]
    /\ lockArg' = [lockArg EXCEPT ![p] = NoArg]
    /\ lockSeen' = [lockSeen EXCEPT ![p] = NoLock]
    /\ UNCHANGED <<disk, lockFile, now, control, pickups, retries>>
    /\ EngineFrame

\* io.js lines 35-37: the fs.watch callback of a process fires
WatchNotify(p) ==
    /\ alive[p] /\ ~isCacheDirty[p]
    /\ globalQueueCache[p] # Some(disk)
    /\ isCacheDirty' = [isCacheDirty EXCEPT ![p] = TRUE]
    /\ UNCHANGED <<disk, lockFile, alive, now, control, globalQueueCache,
                   lastFullScan, pc, task, lockArg, lockSeen, pickups, retries>>
    /\ EngineFrame

\* the reset that takes the SKIPPED tasks along with the FAILED ones
RetryFailedAndSkipped(d) ==
    [id \in DOMAIN d |->
        IF d[id].status \in {"FAILED", "SKIPPED"}
        THEN parseTask([d[id] EXCEPT !.status = "PENDING", !.attempts = 0])
        ELSE d[id]]

\* server.js lines 216-228, POST /api/queue/retry-failed: every FAILED task
\* of the queue goes back to PENDING with attempts 0
RetryFailed(d) ==
    [id \in DOMAIN d |->
        IF d[id].status = "FAILED"
        THEN parseTask([d[id] EXCEPT !.status = "PENDING", !.attempts = 0])
        ELSE d[id]]

RetryReset ==
    /\ retries < MaxRetries
    /\ \E id \in DOMAIN disk : disk[id].status = "FAILED"
    /\ disk' = RetryFailed(disk)
    /\ pickups' = [id \in TaskIds |->
                     IF id \in DOMAIN disk /\ disk[id].status = "FAILED"
                     THEN [run |-> 0, sent |-> 0] ELSE pickups[id]]
    /\ retries' = retries + 1
    /\ UNCHANGED <<lockFile, alive, now, control, globalQueueCache, isCacheDirty,
                   lastFullScan, pc, task, lockArg, lockSeen>>
    /\ EngineFrame

\* the operator edits the control file
SetControl ==
    /\ control' = IF control = "RUN" THEN "PAUSED" ELSE "RUN"
    /\ UNCHANGED <<disk, lockFile, alive, now, globalQueueCache, isCacheDirty,
                   lastFullScan, pc, task, lockArg, lockSeen, pickups, retries>>
    /\ EngineFrame

\* the clock; it is left standing while no task is RUNNING, when its only
\* effect would be a rescan that WatchNotify allows as well
Tick ==
    /\ now < MaxTime
    /\ \E id \in DOMAIN disk : disk[id].status = "RUNNING"
    /\ now' = now + 1
    /\ UNCHANGED <<disk, lockFile, alive, control, globalQueueCache, isCacheDirty,
                   lastFullScan, pc, task, lockArg, lockSeen, pickups, retries>>
    /\ EngineFrame

\* the queue the producers have written before the engines start
InitQueues ==
    {[id \in {"T1"} |-> NewTask("T1", 2, <<0, 9>>, tgt, <<>>, Null, "PENDING", Null)] :
      tgt \in {"chatgpt"}}

Init ==
    /\ InitCommon
    /\ disk \in InitQueues
    /\ lockFile = [tgt \in Targets |-> NoLock]
    /\ pc = [p \in Pids |-> IF p \in Engines THEN "loop" ELSE "dead"]

Next ==
    \/ \E p \in Engines :
          \/ EnginePaused(p)
          \/ EngineWake(p)
          \/ EngineLoad(p)
          \/ EngineLock(p)
          \/ EngineLockDenied(p)
          \/ EngineMarkRunning(p)
          \/ EngineSend(p)
          \/ EngineCollect(p)
          \/ EngineCatch(p)
          \/ EngineFinally(p)
          \/ EngineCrash(p)
          \/ WatchNotify(p)
    \/ RetryReset
    \/ SetControl
    \/ Tick

Spec == Init /\ [][Next]_vars


\* C2: between its creation (or its latest retry-reset) and the next
\* retry-reset, a task is marked RUNNING at most once and has its prompt
\* sent at most once, over all the engines together.
ExactlyOncePickup ==
    \A id \in TaskIds : pickups[id].run <= 1 /\ pickups[id].sent <= 1

Terminal == {"DONE", "FAILED", "SKIPPED"}

\* C3: a persisted status DONE, FAILED or SKIPPED is changed by no step but
\* the retry-reset (FAILED to PENDING), and no step writes PENDING over
\* RUNNING.
StatusMonotonic ==
    [][\A id \in DOMAIN disk \cap DOMAIN disk' :
         LET a == disk[id].status
             b == disk'[id].status
         IN /\ (a \in Terminal /\ b # a) =>
                  (a = "FAILED" /\ b = "PENDING" /\ retries' # retries)
            /\ ~(a = "RUNNING" /\ b = "PENDING")]_vars

\* the lock file of a target names process p
LockNames(p) == {tgt \in Targets : lockFile[tgt].kind = "rec" /\ lockFile[tgt].pid = p}

\* C5: an engine that leaves the catch block of an attempt has the task
\* persisted as FAILED with the error in last_error and in the history, and
\* a live engine that is between two attempts has left no lock file behind.
FailureRecordedLockReleased ==
    \A p \in Engines :
      alive[p] =>
        /\ pc[p] \in {"loop", "paused"} => LockNames(p) = {}
        /\ pc[p] = "finallyErr" =>
              LET id == task[p][1].id IN
              /\ id \in DOMAIN disk
              /\ disk[id].status = "FAILED"
              /\ disk[id].last_error = "EXECUTION"
              /\ Len(disk[id].history) > 0


\* C22: in every attempt the lock is acquired before the task record is
\* loaded and validated, the task is persisted as RUNNING and its prompt is
\* sent only by a process whose lock file names it, and the lock is released
\* only after DONE or FAILED has been persisted.
AttemptOrder ==
    [][\A p \in Engines :
         LET named(t) == lockFile[t.target] = LockRec(t.id, p) IN
         /\ (task[p] = Null /\ task'[p] # Null) => named(task'[p][1])
         /\ (pc[p] = "acqTrue" /\ pc'[p] = "exec") => named(task[p][1])
         /\ (pc[p] = "exec" /\ pc'[p] = "collect") => named(task[p][1])
         /\ (pc[p] \in {"finally", "finallyErr"} /\ pc'[p] = "loop") =>
               LET id == task[p][1].id IN
               id \in DOMAIN disk /\ disk[id].status \in {"DONE", "FAILED"}]_vars

\* a zombie sweep writes its recovery of task id in this step
SweptNow(id) ==
    /\ id \in DOMAIN disk /\ id \in DOMAIN disk'
    /\ disk'[id] # disk[id]
    /\ disk'[id].status = "FAILED"
    /\ disk'[id].last_error = ZombieMsg

\* process q is in the middle of an attempt on task id and its lock file
\* names it
Processing(q, id) ==
    /\ alive[q]
    /\ pc[q] \in {"exec", "collect", "catch"}
    /\ task[q] # Null /\ task[q][1].id = id
    /\ lockFile[task[q][1].target] = LockRec(id, q)

\* C23: the zombie sweep fails no task that a live engine holding
\* the lock of its target is still processing.
SweepSparesLiveOwner ==
    [][\A id \in TaskIds :
         SweptNow(id) => ~\E q \in Engines : Processing(q, id)]_vars

\* C25: every persisted version of a task has the history of the version
\* persisted before it as a prefix.
HistoryAppendOnly ==
    [][\A id \in DOMAIN disk \cap DOMAIN disk' :
         LET old == disk[id].history
             new == disk'[id].history
         IN Len(old) <= Len(new) /\ SubSeq(new, 1, Len(old)) = old]_vars

\* C18: while the control file says PAUSED no task is marked RUNNING and no
\* prompt is sent: a task that is PENDING stays PENDING over every step taken
\* with the control state PAUSED before and after it.
PausedHoldsPending ==
    [][(control = "PAUSED" /\ control' = "PAUSED") =>
         \A id \in DOMAIN disk \cap DOMAIN disk' :
            /\ disk[id].status = "PENDING" => disk'[id].status = "PENDING"
            /\ pickups'[id].run <= pickups[id].run
            /\ pickups'[id].sent <= pickups[id].sent]_vars

(***************************************************************************)
(* Queue files that were not written by saveTask: dropped into the queue   *)
(* directory by hand or by an older producer.  A file carries, next to the *)
(* fields of a task, what it looks like to the code that reads it:         *)
(*   "v4"         the four blocks, valid against TaskSchema                *)
(*   "malformed"  text that JSON.parse rejects                             *)
(*   "empty"      nothing but white space                                  *)
(*   "legacy"     top-level id, prompt and status, no block at all         *)
(*   "noPolicy"   meta, spec and state blocks, no policy block, and a      *)
(*                value in meta that the schema rejects                    *)
(*   "badMeta"    the four blocks, a value in meta or spec that the schema *)
(*                rejects (meta.source outside its enum)                   *)
(*   "badState"   the four blocks, a value in state other than the status  *)
(*                that the schema rejects (progress_estimate above 100)    *)
(***************************************************************************)
Shapes == {"v4", "malformed", "empty", "legacy", "noPolicy", "badMeta", "badState"}

SchemaMsg == "Schema Violation"

Shape(f) == IF "raw" \in DOMAIN f THEN f.raw ELSE "v4"

RawFile(id, shape, prio) ==
    [id |-> id, priority |-> prio, created_at |-> <<0, 9>>, target |-> "chatgpt",
     deps |-> <<>>, execute_after |-> Null,
     status |-> "PENDING", attempts |-> 0, started_at |-> Null,
     last_error |-> "", history |-> <<>>, raw |-> shape]

\* the read that hands on whatever the file holds
safeReadJSONUnchecked(f) == Some(f)

\* io.js lines 98-121: the parsed content, or null for a file that is empty
\* or is not JSON (such a file is renamed into corrupted/ as <name>.<ts>.bad)
safeReadJSON(f) ==
    IF Shape(f) \in {"malformed", "empty"} THEN Null ELSE Some(f)

\* io.js lines 140-144: the files of the directory that a scan quarantines
Quarantined(d) == {id \in DOMAIN d : safeReadJSON(d[id]) = Null}

\* schemas.js lines 154-189: TaskSchema.parse accepts the adapted record.
\* The legacy adapter fills meta.id, spec.payload.user_message and
\* state.status, but meta.created_at (line 45) has no default, so a legacy
\* record is rejected like the records with a violating value.
schemaAccepts(f) == Shape(f) = "v4"

\* io.js lines 206 and 221: loadNextTask reads t.state.status of every
\* record and t.policy.execute_after of every PENDING one; a record without
\* the block makes it throw a TypeError
loadNextTaskThrows(q) ==
    \E id \in DOMAIN q :
        \/ Shape(q[id]) = "legacy"
        \/ Shape(q[id]) = "noPolicy" /\ q[id].status = "PENDING"

\* index.js line 134: rawTask.state = { status: 'FAILED', last_error: ... };
\* the whole state block is replaced, which removes a violation inside it
RejectedState(t) ==
    [t EXCEPT !.status = "FAILED", !.last_error = SchemaMsg,
              !.attempts = 0, !.started_at = Null, !.history = <<>>,
              !.raw = IF @ = "badState" THEN "v4" ELSE @]

(***************************************************************************)
(* One engine over a queue directory of such files, and a producer that    *)
(* submits tasks through POST /api/tasks.                                  *)
(***************************************************************************)
IntakeIds == {"T0", "T1"}
SubmitPriorities == {5, 150}
IntakeEngine == CHOOSE p \in Engines : \A q \in Engines : p <= q

IntakeFrame == UNCHANGED <<lockFile, alive, control, lockArg, lockSeen, call, pass,
                           io, pickups, retries, orch, drv, attempt, scan>>

\* index.js line 122 with io.js lines 131-153 and 200-254: getQueue (a scan
\* quarantines the unreadable files), then the rest of loadNextTask, which
\* may throw into the outer catch of the loop (lines 286-289)
IntakeLoad(p) ==
    /\ alive[p] /\ pc[p] = "loop"
    /\ LET g == getQueue(p)
           bad == IF g.scanned THEN Quarantined(disk) ELSE {}
           q == [id \in DOMAIN g.q \ bad |-> g.q[id]]
           d == [id \in DOMAIN disk \ bad |-> disk[id]]
           seen == [intake EXCEPT
                      !.corrupted = @ \cup bad,
                      !.last = "load",
                      !.scanned = g.scanned,
                      !.files = DOMAIN disk,
                      !.unreadable = {id \in DOMAIN disk :
                                        disk[id].raw \in {"malformed", "empty"}},
                      !.listed = DOMAIN q,
                      !.rejected = Null]
       IN /\ globalQueueCache' = [globalQueueCache EXCEPT ![p] = Some(q)]
          /\ lastFullScan' = [lastFullScan EXCEPT ![p] = IF g.scanned THEN now ELSE @]
          /\ IF loadNextTaskThrows(q)
             THEN /\ disk' = d
                  /\ isCacheDirty' = [isCacheDirty EXCEPT ![p] =
                                         IF g.scanned THEN FALSE ELSE @]
                  /\ intake' = [seen EXCEPT !.threw = "loadNextTask"]
                  /\ UNCHANGED <<pc, task>>
             ELSE \E order \in Orders(DOMAIN q) :
                    LET r == loadNextTask(q, order, now) IN
                    /\ disk' = SaveAll(d, r.q, r.saved)
                    /\ isCacheDirty' = [isCacheDirty EXCEPT ![p] =
                                           IF g.scanned THEN r.saved # {}
                                           ELSE @ \/ r.saved # {}]
                    /\ intake' = [seen EXCEPT !.threw = "none"]
                    /\ IF r.ret = Null
                       THEN UNCHANGED <<pc, task>>
                       ELSE /\ task' = [task EXCEPT ![p] = Some(r.q[r.ret[1]])]
                            /\ pc' = [pc EXCEPT ![p] = "parse"]
    /\ UNCHANGED now
    /\ IntakeFrame

\* index.js lines 129-137: parseTask of the record; a rejected record gets
\* its state block replaced in place (the object is the one in the cache)
\* and is handed to saveTask, which validates it again and throws when the
\* violation is still there
IntakeParse(p) ==
    /\ alive[p] /\ pc[p] = "parse"
    /\ LET t == task[p][1] IN
       IF schemaAccepts(t)
       THEN /\ task' = [task EXCEPT ![p] = Some(parseTask(t))]
            /\ pc' = [pc EXCEPT ![p] = "run"]
            /\ intake' = [intake EXCEPT !.last = "parse", !.scanned = FALSE,
                                         !.threw = "none", !.rejected = Null]
            /\ UNCHANGED <<disk, globalQueueCache, isCacheDirty>>
       ELSE LET r == RejectedState(t) IN
            /\ globalQueueCache' =
                  [globalQueueCache EXCEPT ![p] =
                     IF @ # Null /\ t.id \in DOMAIN @[1]
                     THEN Some([@[1] EXCEPT ![t.id] = r]) ELSE @]
            /\ IF schemaAccepts(r)
               THEN /\ disk' = saveTask(disk, r)
                    /\ isCacheDirty' = [isCacheDirty EXCEPT ![p] = TRUE]
               ELSE UNCHANGED <<disk, isCacheDirty>>
            /\ intake' = [intake EXCEPT
                            !.last = "parse", !.scanned = FALSE,
                            !.threw = IF schemaAccepts(r) THEN "none" ELSE "saveTask",
                            !.rejected = Some(t.id)]
            /\ task' = [task EXCEPT ![p] = Null]
            /\ pc' = [pc EXCEPT ![p] = "loop"]
    /\ UNCHANGED <<now, lastFullScan>>
    /\ IntakeFrame

\* index.js lines 140-160: the lock is free (one engine); RUNNING is saved
IntakeRun(p) ==
    /\ alive[p] /\ pc[p] = "run"
    /\ LET t == [task[p][1] EXCEPT !.status = "RUNNING",
                                   !.started_at = Some(now),
                                   !.attempts = @ + 1]
       IN /\ disk' = saveTask(disk, t)
          /\ task' = [task EXCEPT ![p] = Some(t)]
    /\ isCacheDirty' = [isCacheDirty EXCEPT ![p] = TRUE]
    /\ pc' = [pc EXCEPT ![p] = "finish"]
    /\ intake' = [intake EXCEPT !.last = "run", !.scanned = FALSE, !.rejected = Null]
    /\ UNCHANGED <<now, globalQueueCache, lastFullScan>>
    /\ IntakeFrame

\* index.js lines 162-284: the attempt ends and DONE is saved
IntakeFinish(p) ==
    /\ alive[p] /\ pc[p] = "finish"
    /\ disk' = saveTask(disk, [task[p][1] EXCEPT !.status = "DONE"])
    /\ task' = [task EXCEPT ![p] = Null]
    /\ isCacheDirty' = [isCacheDirty EXCEPT ![p] = TRUE]
    /\ pc' = [pc EXCEPT ![p] = "loop"]
    /\ intake' = [intake EXCEPT !.last = "finish", !.scanned = FALSE, !.rejected = Null]
    /\ UNCHANGED <<now, globalQueueCache, lastFullScan>>
    /\ IntakeFrame

\* server.js lines 177-184, POST /api/tasks: parseTask, then io.saveTask
IntakeSubmit ==
    /\ \E id \in IntakeIds \ (DOMAIN disk \cup DOMAIN intake.supplied \cup intake.corrupted),
          prio \in SubmitPriorities :
         /\ disk' = saveTask(disk, parseTask(RawFile(id, "v4", prio)))
         /\ intake' = [intake EXCEPT !.last = "submit", !.scanned = FALSE,
                                      !.rejected = Null,
                                      !.supplied = @ @@ (id :> prio)]
    /\ UNCHANGED <<now, globalQueueCache, isCacheDirty, lastFullScan, pc, task>>
    /\ IntakeFrame

IntakeTick ==
    /\ now < MaxTime
    /\ now' = now + 1
    /\ UNCHANGED <<disk, globalQueueCache, isCacheDirty, lastFullScan, pc, task, intake>>
    /\ IntakeFrame

\* the files found in the queue directory when the engine starts
IntakeQueues ==
    UNION {[S -> {RawFile(id, shape, 2) : id \in S, shape \in Shapes}] :
             S \in SUBSET IntakeIds}

InitIntake ==
    /\ InitCommon
    /\ disk \in {d \in IntakeQueues : \A id \in DOMAIN d : d[id].id = id}
    /\ lockFile = [tgt \in Targets |-> NoLock]
    /\ pc = [p \in Pids |-> IF p = IntakeEngine THEN "loop" ELSE "dead"]

NextIntake ==
    \/ IntakeLoad(IntakeEngine)
    \/ IntakeParse(IntakeEngine)
    \/ IntakeRun(IntakeEngine)
    \/ IntakeFinish(IntakeEngine)
    \/ WatchNotify(IntakeEngine)
    \/ IntakeSubmit
    \/ IntakeTick

SpecIntake == InitIntake /\ [][NextIntake]_vars

\* C12: when the engine has rejected a record for violating the schema, the
\* record is in the queue directory with status FAILED and the validation
\* error, and it is not in the quarantine directory.
SchemaViolationRecorded ==
    intake.rejected # Null =>
        LET id == intake.rejected[1] IN
        /\ id \in DOMAIN disk
        /\ disk[id].status = "FAILED"
        /\ disk[id].last_error = SchemaMsg
        /\ id \notin intake.corrupted

LegacyRecordHandled ==
    ( /\ intake.last = "load"
      /\ \E id \in intake.listed \cap DOMAIN disk :
            Shape(disk[id]) = "legacy" /\ disk[id].status = "PENDING" )
    => intake.threw = "none"

\* C20: a task accepted by saveTask reads back through getQueue as a valid
\* record with the priority that was supplied.
RoundTrip ==
    \A id \in DOMAIN intake.supplied :
        LET c == globalQueueCache[IntakeEngine] IN
        (c # Null /\ id \in DOMAIN c[1]) =>
            /\ schemaAccepts(c[1][id])
            /\ c[1][id].priority = intake.supplied[id]

\* the engine keeps running its loop, and the fs.watch callback of io.js
\* lines 35-37 fires after a change of the directory
SpecIntakeFair ==
    /\ SpecIntake
    /\ WF_vars(IntakeLoad(IntakeEngine))
    /\ WF_vars(IntakeParse(IntakeEngine))
    /\ WF_vars(IntakeRun(IntakeEngine))
    /\ WF_vars(IntakeFinish(IntakeEngine))
    /\ WF_vars(WatchNotify(IntakeEngine))

\* the records of the queue directory that are legacy-shaped or violate
\* the schema
BadRecords == {id \in DOMAIN disk : ~schemaAccepts(disk[id]) /\ safeReadJSON(disk[id]) # Null}

\* the engine has picked a legacy-shaped or schema-violating record
PickedBad == pc[IntakeEngine] = "parse" /\ ~schemaAccepts(task[IntakeEngine][1])

\* C24: with a single legacy-shaped or schema-violating record in the
\* queue, every valid PENDING task is eventually taken out of PENDING by
\* the engine, and the bad record is not picked again and again for ever.
BadRecordNeverStopsQueue ==
    /\ \A id \in IntakeIds :
          ( /\ Cardinality(BadRecords) = 1
            /\ id \in DOMAIN disk
            /\ schemaAccepts(disk[id])
            /\ disk[id].status = "PENDING" )
          ~> (id \in DOMAIN disk /\ disk[id].status # "PENDING")
    /\ <>[]~PickedBad

(***************************************************************************)
(* system.js: the ConnectionOrchestrator.  One acquireContext call at a    *)
(* time runs through its awaits while Chrome is started and killed, the    *)
(* connection drops and the target tab is opened and closed.  A browser    *)
(* handle is the number of the connection it came from; a page handle      *)
(* names its browser handle and its tab.                                   *)
(***************************************************************************)
MaxConnects == 2       \* connections to Chrome that succeed
MaxTabs == 2           \* target tabs the user opens
MaxRetryCount == 2     \* the retry counter stops counting here

retryDelayMs == 3000
maxRetryDelayMs == 15000
pageScanIntervalMs == 4000
recoveryDelayMs == 1000

\* line 237: Math.min(retryDelayMs * (1 + retryCount * 0.1), maxRetryDelayMs)
BackoffDelay(n) == Min2((retryDelayMs * (10 + n)) \div 10, maxRetryDelayMs)

\* browser.isConnected() of handle b
isConnected(b) == b # 0 /\ orch.conn = b

\* page.isClosed() of page handle h
isClosed(h) == h.t # orch.tab

\* the listeners of one event, as the sequence of the browser handles they
\* were attached to: how many of them handle b has
ListenerCount(ls, b) == Cardinality({i \in DOMAIN ls : ls[i] = b})

\* browser.on(event, listener): one more listener on handle b
on(ls, b) == Append(ls, b)

\* browser.off(event, listener): the listener attached last to handle b is
\* removed, if there is one
off(ls, b) ==
    IF ListenerCount(ls, b) = 0 THEN ls
    ELSE LET k == CHOOSE i \in DOMAIN ls :
                     ls[i] = b /\ \A j \in DOMAIN ls : ls[j] = b => j <= i
         IN [i \in 1..(Len(ls) - 1) |-> IF i < k THEN ls[i] ELSE ls[i + 1]]

\* lines 162-169 without the two calls of browser.off
cleanupKeepListeners(o) == [o EXCEPT !.browser = 0, !.page = Null]

\* lines 162-169: cleanup()
cleanup(o) ==
    [o EXCEPT !.browser = 0, !.page = Null,
              !.disconnected = IF o.browser # 0 THEN off(@, o.browser) ELSE @,
              !.targetdestroyed = IF o.browser # 0 THEN off(@, o.browser) ELSE @]

\* acquireContext without its catch: the exception reaches the caller
acquireContextRethrow(e) == "threw"

\* lines 318-321: the catch of acquireContext's loop: log, sleep, loop
acquireContextCatch(e) == "recover"

\* lines 279-285 with every exception swallowed inside the scan loop
ensurePageCatchSwallow(e) == "scanRetry"

\* lines 279-285: the catch of ensurePage's loop: 'Browser lost' is thrown
\* again, to the caller; anything else sleeps and scans again
ensurePageCatch(e) ==
    IF e = "Browser lost" THEN acquireContextCatch(e) ELSE "scanRetry"

OrchFrame == UNCHANGED <<disk, lockFile, alive, now, control, globalQueueCache,
                         isCacheDirty, lastFullScan, pc, task, lockArg, lockSeen,
                         call, pass, io, pickups, retries, intake, drv, attempt, scan>>

\* index.js line 111 and system.js line 306: acquireContext is called
OrchCall ==
    /\ orch.pc \in {"idle", "returned"}
    /\ orch' = [orch EXCEPT !.state = "DETECTING_ENV", !.pc = "ensureBrowser",
                            !.ret = Null, !.err = "", !.local = Null]
    /\ OrchFrame

\* lines 199-209: ensureBrowser up to its loop
OrchEnsureBrowser ==
    /\ orch.pc = "ensureBrowser"
    /\ orch' = IF isConnected(orch.browser)
               THEN [orch EXCEPT !.state = "BROWSER_READY", !.pc = "ensurePage",
                                 !.err = ""]
               ELSE [cleanup(orch) EXCEPT !.state = "CONNECTING_BROWSER",
                                          !.pc = "connect", !.err = ""]
    /\ OrchFrame

\* lines 213-239: the connection attempts settle; with a browser the
\* listeners are registered, without one the retry is counted
OrchConnect ==
    /\ orch.pc = "connect"
    /\ \/ /\ orch.chrome /\ orch.gens < MaxConnects
          /\ orch' = [orch EXCEPT !.gens = @ + 1, !.conn = orch.gens + 1,
                                  !.browser = orch.gens + 1, !.retryCount = 0,
                                  !.lost = FALSE,
                                  !.disconnected = on(@, orch.gens + 1),
                                  !.targetdestroyed = on(@, orch.gens + 1),
                                  !.state = "BROWSER_READY", !.pc = "ensurePage"]
       \/ /\ ~orch.chrome
          /\ LET n == Min2(orch.retryCount + 1, MaxRetryCount) IN
             orch' = [orch EXCEPT !.browser = 0, !.retryCount = n,
                                  !.lastIssue = "BROWSER_NOT_STARTED",
                                  !.err = "Chrome not found",
                                  !.state = "RETRY_BROWSER",
                                  !.delay = BackoffDelay(n), !.pc = "backoff"]
    /\ OrchFrame

\* line 238: the backoff has been slept
OrchBackoff ==
    /\ orch.pc = "backoff"
    /\ orch' = [orch EXCEPT !.state = "CONNECTING_BROWSER", !.pc = "connect",
                            !.err = "", !.delay = 0]
    /\ OrchFrame

\* lines 253-260: ensurePage up to its loop
OrchEnsurePage ==
    /\ orch.pc = "ensurePage"
    /\ orch' = IF orch.page # Null /\ ~isClosed(orch.page[1])
               THEN [orch EXCEPT !.state = "PAGE_SELECTED", !.local = orch.page,
                                 !.pc = "validate"]
               ELSE [orch EXCEPT !.state = "WAITING_FOR_PAGE", !.pc = "scanCheck"]
    /\ OrchFrame

\* lines 265-269: the browser test at the top of the scan loop, then the
\* call of browser.pages()
OrchScanCheck ==
    /\ orch.pc = "scanCheck"
    /\ orch' = IF ~isConnected(orch.browser)
               THEN [orch EXCEPT !.err = "Browser lost",
                                 !.delay = recoveryDelayMs,
                                 !.pc = ensurePageCatch("Browser lost")]
               ELSE [orch EXCEPT !.used = orch.browser, !.pc = "scanning"]
    /\ OrchFrame

\* lines 243-251 and 269-277: browser.pages() settles
OrchScan ==
    /\ orch.pc = "scanning"
    /\ orch' = IF ~isConnected(orch.used)
               THEN [orch EXCEPT !.err = "Protocol error",
                                 !.delay = recoveryDelayMs,
                                 !.pc = ensurePageCatch("Protocol error")]
               ELSE IF orch.tab # 0
               THEN LET h == Some([b |-> orch.used, t |-> orch.tab]) IN
                    [orch EXCEPT !.page = h, !.local = h,
                                 !.state = "PAGE_SELECTED", !.pc = "validate"]
               ELSE [orch EXCEPT !.lastIssue = "PAGE_NOT_FOUND",
                                 !.err = "Page not found",
                                 !.delay = pageScanIntervalMs, !.pc = "scanWait"]
    /\ OrchFrame

\* lines 277 and 284: the sleep of the scan loop is over
OrchScanAgain ==
    /\ orch.pc \in {"scanRetry", "scanWait"}
    /\ orch' = [orch EXCEPT !.pc = "scanCheck", !.err = "", !.delay = 0]
    /\ OrchFrame

\* line 320: the sleep of acquireContext's catch is over
OrchRecover ==
    /\ orch.pc = "recover"
    /\ orch' = [orch EXCEPT !.pc = "ensureBrowser", !.err = "", !.delay = 0]
    /\ OrchFrame

\* lines 289-293 and 296-300: validatePage up to bringToFront; a closed page
\* makes it return false and acquireContext's loop starts over at once
OrchValidate ==
    /\ orch.pc = "validate"
    /\ orch' = IF orch.local = Null \/ isClosed(orch.local[1])
               THEN [orch EXCEPT !.page = Null, !.state = "PAGE_INVALID",
                                 !.err = "Page closed", !.pc = "ensureBrowser"]
               ELSE [orch EXCEPT !.state = "VALIDATING_PAGE", !.pc = "bringing"]
    /\ OrchFrame

\* lines 293-295 and 314-316: bringToFront settles (a rejection is
\* swallowed), PAGE_VALIDATED, READY, return { browser: this.browser,
\* page: this.page }
OrchReturn ==
    /\ orch.pc = "bringing"
    /\ orch' = [orch EXCEPT !.state = "READY", !.pc = "returned",
                            !.ret = Some([browser |-> orch.browser, page |-> orch.page])]
    /\ OrchFrame

\* Chrome is started with its debugging port open
OrchChromeStart ==
    /\ ~orch.chrome
    /\ orch' = [orch EXCEPT !.chrome = TRUE]
    /\ OrchFrame

\* the user opens the target tab
OrchTabOpen ==
    /\ orch.chrome /\ orch.tab = 0 /\ orch.tabs < MaxTabs
    /\ orch' = [orch EXCEPT !.tabs = @ + 1, !.tab = orch.tabs + 1]
    /\ OrchFrame

\* lines 145-149: the connection is lost, because Chrome was killed (its
\* tabs go with it) or because the socket dropped; the 'disconnected'
\* listener of the handle runs _handleDisconnect
OrchDisconnect ==
    /\ orch.conn # 0
    /\ \E killed \in BOOLEAN :
         LET env == [orch EXCEPT !.conn = 0,
                                 !.chrome = ~killed,
                                 !.tab = IF killed THEN 0 ELSE @]
         IN orch' = IF ListenerCount(orch.disconnected, orch.conn) > 0
                    THEN [cleanup(env) EXCEPT !.lastIssue = "BROWSER_DISCONNECTED",
                                              !.state = "BROWSER_LOST",
                                              !.lost = TRUE]
                    ELSE env
    /\ OrchFrame

\* lines 151-160: the user closes the target tab; the 'targetdestroyed'
\* listener runs _handleTargetDestroyed
OrchTargetDestroyed ==
    /\ orch.tab # 0
    /\ LET env == [orch EXCEPT !.tab = 0] IN
       orch' = IF /\ ListenerCount(orch.targetdestroyed, orch.conn) > 0
                  /\ orch.page # Null
                  /\ orch.page[1].t = orch.tab
               THEN [env EXCEPT !.page = Null,
                                !.lastIssue = "PAGE_CLOSED_BY_USER",
                                !.state = "WAITING_FOR_PAGE"]
               ELSE env
    /\ OrchFrame

\* index.js lines 271-275: between two calls of acquireContext the engine's
\* catch block calls orchestrator.cleanup()
OrchCleanup ==
    /\ orch.pc = "returned"
    /\ orch.browser # 0 \/ orch.page # Null
    /\ orch' = cleanup(orch)
    /\ OrchFrame

InitOrch ==
    /\ InitCommon
    /\ disk = <<>>
    /\ lockFile = [tgt \in Targets |-> NoLock]
    /\ pc = [p \in Pids |-> IF p \in Engines THEN "loop" ELSE "dead"]

NextOrch ==
    \/ OrchCall
    \/ OrchEnsureBrowser
    \/ OrchConnect
    \/ OrchBackoff
    \/ OrchEnsurePage
    \/ OrchScanCheck
    \/ OrchScan
    \/ OrchScanAgain
    \/ OrchRecover
    \/ OrchValidate
    \/ OrchReturn
    \/ OrchChromeStart
    \/ OrchTabOpen
    \/ OrchDisconnect
    \/ OrchTargetDestroyed
    \/ OrchCleanup

SpecOrch == InitOrch /\ [][NextOrch]_vars

\* the places where acquireContext sleeps before it tries again
OrchSleepPcs == {"backoff", "scanRetry", "scanWait", "recover"}

ReturnedContextIsLive ==
    [][(orch'.pc = "returned" /\ orch.pc # "returned") =>
         LET r == orch'.ret[1] IN
         /\ orch'.state = "READY"
         /\ r.browser # 0 /\ orch'.conn = r.browser
         /\ r.page # Null
         /\ r.page[1].t = orch'.tab
         /\ r.page[1].b = r.browser]_vars

\* C33: after a disconnect event has put the orchestrator in BROWSER_LOST
\* (orch.lost, until a connection attempt succeeds and takes the state from
\* CONNECTING_BROWSER to BROWSER_READY with a new browser), the state is not
\* READY
NoReadyWhileLost ==
    orch.state = "READY" => ~orch.lost

\* C34: every browser handle has at most one disconnected listener and at
\* most one targetdestroyed listener of the orchestrator, and a handle the
\* orchestrator does not hold (any more) has none
ListenersOncePerBrowser ==
    \A b \in 1..MaxConnects :
        /\ ListenerCount(orch.disconnected, b) <= 1
        /\ ListenerCount(orch.targetdestroyed, b) <= 1
        /\ b # orch.browser =>
              /\ ListenerCount(orch.disconnected, b) = 0
              /\ ListenerCount(orch.targetdestroyed, b) = 0

\* the orchestrator holds its second browser, with its listeners, after the
\* first one was lost
ListenersOncePerBrowserWitness ==
    /\ orch.gens = 2 /\ orch.browser = 2
    /\ orch.disconnected = <<2>> /\ orch.targetdestroyed = <<2>>
    /\ orch.lastIssue = "BROWSER_DISCONNECTED"

\* the awaits of acquireContext settle and its timers fire
SpecOrchFair ==
    /\ SpecOrch
    /\ WF_vars(OrchEnsureBrowser) /\ WF_vars(OrchConnect) /\ WF_vars(OrchBackoff)
    /\ WF_vars(OrchEnsurePage) /\ WF_vars(OrchScanCheck) /\ WF_vars(OrchScan)
    /\ WF_vars(OrchScanAgain) /\ WF_vars(OrchRecover) /\ WF_vars(OrchValidate)
    /\ WF_vars(OrchReturn)

\* Chrome listens on its port with the target tab open, and the orchestrator
\* holds a connected browser or can still connect
BrowserAvailable ==
    /\ orch.chrome /\ orch.tab # 0
    /\ isConnected(orch.browser) \/ orch.gens < MaxConnects

AcquirePending == orch.pc \notin {"idle", "returned"}

\* C32: if from some point on a browser is reachable with the target page
\* open and no disconnect or page-close event occurs any more, a pending
\* acquireContext call eventually returns
AcquireEventuallyReturns ==
    (<>[]BrowserAvailable /\ <>[][~OrchDisconnect /\ ~OrchTargetDestroyed]_vars)
        => (AcquirePending ~> orch.pc = "returned")

\* a call that found no browser and later returned a context
AcquireEventuallyReturnsWitness ==
    /\ orch.pc = "returned"
    /\ orch.lastIssue = "BROWSER_NOT_STARTED"
    /\ BrowserAvailable

(***************************************************************************)
(* ChatGPTDriver.js: waitForCompletion, one call of it polling one page     *)
(***************************************************************************)
MaxStableCycles == 2   \* largest configured STABLE_CYCLES
MaxCycles == 4         \* polling cycles of one call that are remembered
MaxStallCycles == 1    \* cycles a stalled page may be polled before the raise

StallGapMs == 300000
maxPatience == 300000

\* the texts the response region can show
Texts == {"", "a", "ab"}

\* triage.js lines 17-97: the results of diagnoseStall
Diagnoses == {"CAPTCHA", "LOGIN_REQUIRED", "LIMIT_REACHED", "THINKING",
              "LOADING", "BROWSER_FROZEN", "UNKNOWN"}

\* lines 90-92: the diagnoses that end the call at once
HardBlockers == {"LIMIT_REACHED", "CAPTCHA", "LOGIN_REQUIRED"}

BlockerError(status) ==
    CASE status = "LIMIT_REACHED" -> "LIMIT_REACHED"
      [] status = "CAPTCHA" -> "CAPTCHA_DETECTED"
      [] status = "LOGIN_REQUIRED" -> "LOGIN_REQUIRED"

\* line 121: network in flight or a spinner on screen
StillWorking(status) == status = "THINKING" \/ status = "LOADING"

\* JavaScript values that reach the comparison of line 119
Num(n) == [kind |-> "number", v |-> n]
Str(x) == [kind |-> "string", v |-> x]

\* adaptive.js line 42: var is (initialAvg / 2)^2; std is its square root
createEmptyStats(initialAvg) ==
    [avg |-> initialAvg, std |-> initialAvg \div 2, count |-> 0]

\* adaptive.js line 153
minPatience(phase) == IF phase = "INITIAL" THEN 30000 ELSE 10000

\* 1000 * log2(n) for the message counts of the model
Log2Milli(n) == CASE n = 2 -> 1000 [] n = 3 -> 1585 [] n = 4 -> 2000

\* adaptive.js lines 136-169: an async function, so the result is a promise;
\* target.toLowerCase() of a number is a TypeError that rejects it
getAdjustedTimeout(target, messageCount, phase) ==
    IF target.kind # "string"
    THEN [kind |-> "promise", settled |-> "rejected", value |-> Null]
    ELSE LET profile == [ttft |-> createEmptyStats(20000),
                         stream |-> createEmptyStats(1000)]
             stats == IF phase \in {"INITIAL", "TTFT"} THEN profile.ttft
                                                       ELSE profile.stream
             base == stats.avg
             safetyMargin == 3 * stats.std
             contextPenalty == (Log2Milli(messageCount + 2) * 2000 + 500) \div 1000
             total == base + safetyMargin + contextPenalty
         IN [kind |-> "promise", settled |-> "fulfilled",
             value |-> Some([timeout |-> Min2(maxPatience, Max2(minPatience(phase), total))])]

\* the > of line 119: a number operand is compared, anything else converts
\* to NaN and the comparison is false
GreaterThan(gap, x) == x.kind = "number" /\ gap > x.v

\* lines 99-104 with the reset left out
stabilityUpdateNoReset(d, currentText) ==
    IF currentText # "" /\ currentText = d.lastText
    THEN [d EXCEPT !.stableCycles = @ + 1]
    ELSE [d EXCEPT !.lastText = currentText]

\* lines 99-104: the stability count
stabilityUpdate(d, currentText) ==
    IF currentText # "" /\ currentText = d.lastText
    THEN [d EXCEPT !.stableCycles = @ + 1]
    ELSE [d EXCEPT !.stableCycles = 0, !.lastText = currentText]

\* the page is stalled: the last mutation is older than the adaptive
\* timeout, nothing is in flight, no spinner, no hard blocker
Stalled(status, gap, messageCount) ==
    /\ status \notin HardBlockers
    /\ ~StillWorking(status)
    /\ gap > getAdjustedTimeout(Str("chatgpt.com"), messageCount, "STREAM").value[1].timeout

\* the cycle reached the stall check of line 119 with requests in flight or
\* a spinner on screen, and with the last mutation older than the adaptive
\* timeout
ThinkingOverdue(status, gap, messageCount) ==
    /\ StillWorking(status)
    /\ gap > getAdjustedTimeout(Str("chatgpt.com"), messageCount, "STREAM").value[1].timeout

\* the texts extracted in the last MaxCycles polling cycles
Remember(h, currentText) ==
    LET all == Append(h, currentText) IN
    IF Len(all) > MaxCycles THEN SubSeq(all, 2, Len(all)) ELSE all

\* lines 84-132: one iteration of the polling loop
PollCycle(d, status, currentText, gap) ==
    LET msgs == IF currentText = "" THEN 0 ELSE 1
        s == [stabilityUpdate(d, currentText) EXCEPT !.seen = Remember(@, currentText),
                                                     !.overdue = FALSE,
                                                     !.reset = FALSE]
        o == ThinkingOverdue(status, gap, msgs)
        dynamicTimeout == getAdjustedTimeout(Num(msgs), 0, "STREAM")
        unhandled == dynamicTimeout.settled = "rejected"
    IN IF status \in HardBlockers
       THEN [d EXCEPT !.phase = "threw", !.err = BlockerError(status),
                      !.overdue = FALSE, !.reset = FALSE]
       ELSE IF s.stableCycles >= d.STABLE_CYCLES
       THEN [s EXCEPT !.phase = "returned", !.ret = Some(currentText)]
       ELSE IF GreaterThan(gap, dynamicTimeout)
       THEN IF StillWorking(status)
            THEN [s EXCEPT !.frozen = 0, !.rejected = @ \/ unhandled,
                           !.overdue = o, !.reset = TRUE]
            ELSE [s EXCEPT !.phase = "threw", !.err = "STALL_DETECTED",
                           !.rejected = @ \/ unhandled]
       ELSE [s EXCEPT !.rejected = @ \/ unhandled, !.overdue = o,
                      !.frozen = IF Stalled(status, gap, msgs)
                                 THEN Min2(@ + 1, MaxStallCycles + 1) ELSE 0]

DrvFrame == UNCHANGED <<disk, lockFile, alive, now, control, globalQueueCache,
                        isCacheDirty, lastFullScan, pc, task, lockArg, lockSeen,
                        call, pass, io, pickups, retries, intake, orch, attempt, scan>>

\* the configured STABLE_CYCLES
STABLE_CYCLES == 1..MaxStableCycles

\* lines 68-82: waitForCompletion is called
DrvStart ==
    /\ drv.phase \in {"idle", "returned", "threw"}
    /\ \E n \in STABLE_CYCLES :
         drv' = [NoDrv EXCEPT !.phase = "polling", !.STABLE_CYCLES = n]
    /\ DrvFrame

\* lines 84-132: the page shows something and one polling cycle runs
DrvCycle ==
    /\ drv.phase = "polling"
    /\ \E status \in Diagnoses, currentText \in Texts, gap \in {0, StallGapMs} :
         drv' = PollCycle(drv, status, currentText, gap)
    /\ DrvFrame

InitDrv == InitOrch

NextDrv ==
    \/ DrvStart
    \/ DrvCycle

SpecDrv == InitDrv /\ [][NextDrv]_vars

\* the engine keeps awaiting the call, so its polling loop keeps running
SpecDrvFair == SpecDrv /\ WF_vars(DrvCycle)

\* C16: a page whose last mutation stays older than the adaptive timeout,
\* with no request in flight, no spinner and no hard blocker, is not polled
\* for more than a bounded number of cycles: the call raises STALL_DETECTED.
StallRaisedWithinBound ==
    drv.phase = "polling" => drv.frozen <= MaxStallCycles

\* C31: a polling cycle that finds the last mutation older than the adaptive
\* timeout while the diagnosis is THINKING or LOADING does not raise; it
\* resets the mutation-watchdog timestamp and the call keeps polling
ThinkingResetsWatchdog ==
    drv.overdue => drv.phase = "polling" /\ drv.reset

\* the number of cycles at the end of the history in which the text was
\* non-empty and the same as in the cycle before
RECURSIVE UnchangedRun(_)
UnchangedRun(h) ==
    IF Len(h) < 2 \/ h[Len(h)] = "" \/ h[Len(h)] # h[Len(h) - 1]
    THEN 0
    ELSE 1 + UnchangedRun(SubSeq(h, 1, Len(h) - 1))

LockValues ==
    {NoLock} \cup {EmptyLock(p) : p \in Pids}
             \cup {LockRec(tid, p) : tid \in TaskIds, p \in Pids}

RelFrame == UNCHANGED <<disk, alive, now, control, globalQueueCache, isCacheDirty,
                        lastFullScan, task, call, pass, io, pickups, retries,
                        intake, orch, drv, attempt, scan>>

\* releaseLock(target) is called; lockSeen remembers what the lock file held
RelCall(p) ==
    /\ pc[p] = "idle"
    /\ \E tgt \in Targets :
         LET r == releaseLockCall(lockFile, tgt) IN
         /\ lockFile' = r.lockFile
         /\ pc' = [pc EXCEPT ![p] = IF r.raised THEN "relThrew" ELSE "rel1"]
         /\ lockArg' = [lockArg EXCEPT ![p] = [taskId |-> "", target |-> tgt]]
         /\ lockSeen' = [lockSeen EXCEPT ![p] = lockFile[tgt]]
    /\ RelFrame

\* releaseLock(target) is called again
RelAgain(p) ==
    /\ pc[p] = "rel1"
    /\ LET r == releaseLockCall(lockFile, lockArg[p].target) IN
       /\ lockFile' = r.lockFile
       /\ pc' = [pc EXCEPT ![p] = IF r.raised THEN "relThrew" ELSE "rel2"]
    /\ UNCHANGED <<lockArg, lockSeen>>
    /\ RelFrame

\* the caller goes on
RelReturn(p) ==
    /\ pc[p] \in {"rel2", "relThrew"}
    /\ pc' = [pc EXCEPT ![p] = "idle"]
    /\ lockSeen' = [lockSeen EXCEPT ![p] = NoLock]
    /\ UNCHANGED <<lockFile, lockArg>>
    /\ RelFrame

\* some process creates the lock file of a target (line 264)
RelLockAppears ==
    /\ \E tgt \in Targets, v \in LockValues \ {NoLock} :
         /\ lockFile[tgt] = NoLock
         /\ lockFile' = [lockFile EXCEPT ![tgt] = v]
    /\ UNCHANGED <<pc, lockArg, lockSeen>>
    /\ RelFrame

InitRelease ==
    /\ InitCommon
    /\ disk = <<>>
    /\ lockFile \in [Targets -> LockValues]
    /\ pc = [p \in Pids |-> IF p \in Engines THEN "idle" ELSE "dead"]

NextRelease ==
    \/ \E p \in Engines :
          \/ RelCall(p)
          \/ RelAgain(p)
          \/ RelReturn(p)
    \/ RelLockAppears

SpecRelease == InitRelease /\ [][NextRelease]_vars

\* C21: a call of releaseLock raises nothing and leaves no lock file for its
\* target, and the other targets' lock files as they were; called for a
\* target that has no lock file (as the second of two calls in a row is) it
\* changes nothing.
ReleaseIdempotent ==
    [][\A p \in Engines :
         (pc[p] \in {"idle", "rel1"} /\ pc'[p] # pc[p]) =>
            LET tgt == lockArg'[p].target IN
            /\ pc'[p] # "relThrew"
            /\ lockFile'[tgt] = NoLock
            /\ \A o \in Targets \ {tgt} : lockFile'[o] = lockFile[o]
            /\ lockFile[tgt] = NoLock => lockFile' = lockFile]_vars

\* releaseLock was called twice in a row for a lock file that was there
ReleaseIdempotentWitness ==
    \E p \in Engines :
        /\ pc[p] = "rel2"
        /\ lockSeen[p].kind = "rec"
        /\ lockFile[lockArg[p].target] = NoLock

\* C28: every call of waitForCompletion ends, with a text or with a
\* failure, whatever the page shows.
WaitTerminates ==
    (drv.phase = "polling") ~> (drv.phase \in {"returned", "threw"})


(***************************************************************************)
(* index.js: one attempt at a task from the collection loop to the finally *)
(* block (lines 181-284), with validator.js                                *)
(***************************************************************************)

MaxContinuations == 2   \* chunks one attempt may collect

\* config.js: the continuation limit of the collection loop
MAX_CONTINUATIONS == MaxContinuations

\* the task of the attempt, persisted as RUNNING by lines 158-161
CollectTask ==
    [NewTask("T1", 2, <<0, 9>>, "chatgpt", <<>>, Null, "RUNNING", Some(0))
        EXCEPT !.attempts = 1]

CollectEngine == CHOOSE p \in Engines : \A q \in Engines : p <= q

\* the stable texts waitForCompletion can return
Chunks == {"more", "done.", "package.json"}

ChunkLength(chunk) ==
    CASE chunk = "more" -> 4 [] chunk = "done." -> 5 [] chunk = "package.json" -> 12

\* lines 213-215: a short chunk that ends with punctuation or closes a code
\* block ends the response
EndsResponse(chunk) == ChunkLength(chunk) < 1000 /\ chunk = "done."

\* the files of the engine's working directory besides the response file:
\* path -> size in bytes, and whether a line holds an error indicator term
WorkDir == [p \in {"package.json"} |-> [size |-> 400, forbidden |-> FALSE]]

\* error messages, as the sequence of their words
LimitReached == <<"LIMIT_REACHED">>
CaptchaDetected == <<"CAPTCHA_DETECTED">>
LoginRequired == <<"LOGIN_REQUIRED">>
StallDetected(status) == <<"STALL_DETECTED:", status>>
TargetClosed == <<"TARGET_CLOSED:", "A", "aba", "do", "navegador", "foi", "encerrada.">>
ProtocolTargetClosed == <<"Protocol", "error:", "Target", "closed">>
NoSuchFile == <<"ENOENT:", "no", "such", "file", "or", "directory">>
QualityRejected(reason) == <<"QUALITY_REJECTED:", reason>>

\* String.prototype.includes on a message, for a term made of whole words;
\* it is case-sensitive
includes(message, term) ==
    \E i \in 1..Len(message) :
        /\ i + Len(term) - 1 <= Len(message)
        /\ SubSeq(message, i, i + Len(term) - 1) = term

\* ChatGPTDriver.js lines 90-92 and 117-127, and the page.evaluate and $$eval
\* calls of the polling loop on a page whose target is gone: what
\* waitForCompletion can throw
WaitErrors ==
    {LimitReached, CaptchaDetected, LoginRequired, ProtocolTargetClosed}
    \cup {StallDetected(status) :
            status \in {s \in Diagnoses \ HardBlockers :
                          /\ ~StillWorking(s)
                          /\ \E msgs \in 0..1 :
                                 GreaterThan(StallGapMs + 1,
                                             getAdjustedTimeout(Num(msgs), 0, "STREAM"))}}

\* BaseDriver.js lines 33-37, 127 and 189: what sendPrompt can throw between
\* two rounds
SendErrors == {TargetClosed, ProtocolTargetClosed}

\* validator.js lines 19-106 for a task without validation rules; filePath
\* is whatever the caller passes
validateTaskResult(filePath) ==
    IF filePath \notin DOMAIN WorkDir
    THEN [ok |-> FALSE, reason |-> "FILE_NOT_FOUND"]
    ELSE IF WorkDir[filePath].size < 10
    THEN [ok |-> FALSE, reason |-> "TOO_SHORT"]
    ELSE IF WorkDir[filePath].forbidden
    THEN [ok |-> FALSE, reason |-> "FORBIDDEN_CONTENT"]
    ELSE [ok |-> TRUE, reason |-> ""]

\* line 203: fs.appendFileSync(outPath, separator + chunk)
appendFileSync(file, a, chunk) ==
    Some((IF file = Null THEN "" ELSE file[1])
         \o (IF a.totalResponseLength > 0 THEN "\n\n" ELSE "") \o chunk)

\* lines 226-239: the catch block of a collection round; a rate limit (after
\* its 30 minute sleep) and a closed target are thrown on, anything else
\* ends the loop with the progress kept
waitErrCatch(a, waitErr) ==
    IF \/ includes(waitErr, <<"LIMIT_REACHED">>)
       \/ includes(waitErr, <<"Target", "closed">>)
    THEN [a EXCEPT !.pc = "catch", !.raised = waitErr, !.taskErr = waitErr]
    ELSE [a EXCEPT !.pc = "validate", !.raised = waitErr]

\* a round begins with a call of waitForCompletion (line 192)
roundOf(a) == [a EXCEPT !.rounds = @ + 1]

\* lines 217-224: sendPrompt is called with the continue command
promptOf(a) == [a EXCEPT !.prompts = @ + 1]

ColFrame == UNCHANGED <<alive, now, control, globalQueueCache, isCacheDirty,
                        lastFullScan, pc, task, lockArg, lockSeen, call, pass,
                        io, pickups, retries, intake, orch, drv, scan>>

\* lines 181-189: the counters start at zero and a response file left by an
\* earlier attempt is unlinked; the browser of the context may or may not
\* have a process id (a browser attached over a websocket has none)
ColStart ==
    /\ attempt.pc = "idle"
    /\ \E pid \in BOOLEAN :
          attempt' = [NoAttempt EXCEPT !.pc = "wait", !.pid = pid]
    /\ UNCHANGED <<disk, lockFile>>
    /\ ColFrame

\* lines 207-215 without the test of the round counter
roundEndsUnlimited(cycles, chunk) == EndsResponse(chunk)

\* lines 207-215: the two breaks after a chunk was appended; cycles is the
\* counter after its increment
roundEnds(cycles, chunk) == cycles >= MAX_CONTINUATIONS \/ EndsResponse(chunk)

\* lines 192-215: one round that got its chunk from waitForCompletion
ColChunk ==
    /\ attempt.pc = "wait"
    /\ \E chunk \in Chunks :
          IF chunk = attempt.lastChunkHash /\ attempt.cycles > 0
          THEN attempt' = [attempt EXCEPT !.pc = "validate", !.rounds = @ + 1]
          ELSE LET cycles == attempt.cycles + 1 IN
               attempt' = [attempt EXCEPT
                   !.lastChunkHash = chunk,
                   !.outPath = appendFileSync(attempt.outPath, attempt, chunk),
                   !.totalResponseLength = @ + ChunkLength(chunk),
                   !.cycles = cycles,
                   !.rounds = @ + 1,
                   !.appended = @ + 1,
                   !.pc = IF roundEnds(cycles, chunk) THEN "validate" ELSE "continue"]
    /\ UNCHANGED <<disk, lockFile>>
    /\ ColFrame

\* lines 192 and 226-239: waitForCompletion throws
ColWaitThrows ==
    /\ attempt.pc = "wait"
    /\ \E waitErr \in WaitErrors : attempt' = waitErrCatch(roundOf(attempt), waitErr)
    /\ UNCHANGED <<disk, lockFile>>
    /\ ColFrame

\* lines 217-224 and 226-239: the continue command is sent, or sendPrompt
\* throws into the same catch block
ColContinue ==
    /\ attempt.pc = "continue"
    /\ \/ attempt' = [promptOf(attempt) EXCEPT !.pc = "wait"]
       \/ \E waitErr \in SendErrors : attempt' = waitErrCatch(promptOf(attempt), waitErr)
    /\ UNCHANGED <<disk, lockFile>>
    /\ ColFrame

\* lines 243-258: the response file is read (it does not exist when no chunk
\* was appended), its content is handed to the validator, and the task is
\* saved as DONE
ColValidate ==
    /\ attempt.pc = "validate"
    /\ IF attempt.outPath = Null
       THEN /\ attempt' = [attempt EXCEPT !.pc = "catch", !.taskErr = NoSuchFile]
            /\ UNCHANGED disk
       ELSE LET finalContent == attempt.outPath[1]
                quality == validateTaskResult(finalContent)
            IN IF ~quality.ok
               THEN /\ attempt' = [attempt EXCEPT
                                      !.pc = "catch",
                                      !.taskErr = QualityRejected(quality.reason)]
                    /\ UNCHANGED disk
               ELSE /\ disk' = saveTask(disk, [disk["T1"] EXCEPT !.status = "DONE"])
                    /\ attempt' = [attempt EXCEPT !.pc = "finally",
                                                  !.consecutiveTaskFailures = 0]
    /\ UNCHANGED lockFile
    /\ ColFrame

\* lines 264-279: the catch block of the attempt
ColCatch ==
    /\ attempt.pc = "catch"
    /\ LET taskErr == attempt.taskErr
           infra == \/ includes(taskErr, <<"Target", "closed">>)
                    \/ includes(taskErr, <<"BROWSER_FROZEN">>)
       IN attempt' = [attempt EXCEPT
              !.pc = "finally",
              !.kills = IF infra /\ attempt.pid THEN @ + 1 ELSE @,
              !.cleanups = IF infra THEN @ + 1 ELSE @,
              !.consecutiveInfraFailures = IF infra THEN @ + 1 ELSE @,
              !.consecutiveTaskFailures = @ + 1]
    /\ disk' = saveTask(disk, classifyAndSaveFailure(disk["T1"]))
    /\ UNCHANGED lockFile
    /\ ColFrame

\* lines 281-284: the lock of the target is released
ColFinally ==
    /\ attempt.pc = "finally"
    /\ lockFile' = releaseLock("chatgpt")
    /\ attempt' = [attempt EXCEPT !.pc = "ended"]
    /\ UNCHANGED disk
    /\ ColFrame

\* lines 110-119: the next pass of the loop asks for a context
ColAcquire ==
    /\ attempt.pc = "ended"
    /\ \/ attempt' = [attempt EXCEPT !.pc = "acquired", !.consecutiveInfraFailures = 0]
       \/ attempt' = [attempt EXCEPT !.pc = "acquired",
                                     !.consecutiveInfraFailures = @ + 1]
    /\ UNCHANGED <<disk, lockFile>>
    /\ ColFrame

InitCollect ==
    /\ InitCommon
    /\ disk = [id \in {"T1"} |-> CollectTask]
    /\ lockFile = [tgt \in Targets |->
                     IF tgt = "chatgpt" THEN LockRec("T1", CollectEngine) ELSE NoLock]
    /\ pc = [p \in Pids |-> IF p \in Engines THEN "loop" ELSE "dead"]

NextCollect ==
    \/ ColStart
    \/ ColChunk
    \/ ColWaitThrows
    \/ ColContinue
    \/ ColValidate
    \/ ColCatch
    \/ ColFinally
    \/ ColAcquire

SpecCollect == InitCollect /\ [][NextCollect]_vars

AttemptOver == attempt.pc \in {"ended", "acquired"}

\* C29: an attempt in which waitForCompletion raised CAPTCHA_DETECTED or
\* LOGIN_REQUIRED, in its first round or after chunks were appended, never
\* persists DONE and ends with the task persisted as FAILED
BlockerFailsTask ==
    attempt.raised \in {CaptchaDetected, LoginRequired} =>
        /\ disk["T1"].status # "DONE"
        /\ AttemptOver => disk["T1"].status = "FAILED"


\* the collection failed on a frozen tab or on a page handle whose target
\* is closed
InfraFailure(message) ==
    \/ message = StallDetected("BROWSER_FROZEN")
    \/ message = TargetClosed
    \/ message = ProtocolTargetClosed

\* C30: when the collection failed on a frozen tab or on a closed target,
\* the attempt has killed the browser process (if its pid is known), called
\* orchestrator.cleanup() and counted an infrastructure failure by the time
\* it is over, before the next acquireContext
InfraFailureTearsDown ==
    attempt.pc = "ended" /\ InfraFailure(attempt.raised) =>
        /\ attempt.cleanups > 0
        /\ attempt.consecutiveInfraFailures > 0
        /\ attempt.pid => attempt.kills > 0


\* C39: one attempt runs at most MAX_CONTINUATIONS rounds of the collection
\* loop, appends at most MAX_CONTINUATIONS chunks to the response file and
\* sends at most MAX_CONTINUATIONS - 1 continue commands
RoundsBounded ==
    /\ attempt.rounds <= MAX_CONTINUATIONS
    /\ attempt.appended <= MAX_CONTINUATIONS
    /\ attempt.prompts <= MAX_CONTINUATIONS - 1

\* the loop was left at the limit of the rounds
RoundsBoundedWitness ==
    /\ attempt.pc = "validate"
    /\ attempt.raised = <<>>
    /\ attempt.rounds = MAX_CONTINUATIONS
    /\ attempt.appended = MAX_CONTINUATIONS
    /\ attempt.prompts = MAX_CONTINUATIONS - 1
    /\ ~EndsResponse(attempt.lastChunkHash)

(***************************************************************************)
(* system.js: setState and the state history of the orchestrator, under    *)
(* any sequence of setState calls                                          *)
(***************************************************************************)

MaxHistory == 3        \* the configured stateHistorySize of the model

\* line 97, scaled down
stateHistorySize == MaxHistory

\* lines 68-82
STATES == {"INIT", "DETECTING_ENV", "WAITING_FOR_BROWSER", "CONNECTING_BROWSER",
           "RETRY_BROWSER", "BROWSER_READY", "BROWSER_LOST", "WAITING_FOR_PAGE",
           "PAGE_SELECTED", "VALIDATING_PAGE", "PAGE_VALIDATED", "PAGE_INVALID",
           "READY"}

\* lines 126-129: push, then shift when the buffer is over its size
pushStateHistory(h, state) ==
    LET all == Append(h, state) IN
    IF Len(all) > stateHistorySize THEN SubSeq(all, 2, Len(all)) ELSE all

\* lines 119-124 without the test of line 120
setStateNoDedup(o, next) ==
    [o EXCEPT !.state = next, !.stateHistory = pushStateHistory(@, next)]

\* lines 119-124: setState(next)
setState(o, next) ==
    IF o.state = next THEN o
    ELSE [o EXCEPT !.state = next, !.stateHistory = pushStateHistory(@, next)]

HistFrame == UNCHANGED <<disk, lockFile, alive, now, control, globalQueueCache,
                         isCacheDirty, lastFullScan, pc, task, lockArg, lockSeen,
                         call, pass, io, pickups, retries, intake, drv, attempt, scan>>

\* one call of setState; next is remembered, and so is the number of calls
\* that named another state than the current one
HistSetState ==
    /\ \E next \in STATES :
         orch' = [setState(orch, next) EXCEPT
                     !.next = next,
                     !.changes = IF next # orch.state
                                 THEN Min2(@ + 1, stateHistorySize + 1) ELSE @]
    /\ HistFrame

\* lines 104-112: the constructor
InitHistory ==
    /\ InitRest
    /\ orch = [state |-> "INIT", stateHistory |-> <<>>, next |-> "INIT", changes |-> 0]
    /\ disk = <<>>
    /\ lockFile = [tgt \in Targets |-> NoLock]
    /\ pc = [p \in Pids |-> IF p \in Engines THEN "loop" ELSE "dead"]

NextHistory == HistSetState

SpecHistory == InitHistory /\ [][NextHistory]_vars

\* C35: the state history holds at most stateHistorySize entries, the
\* oldest dropped first; it gains exactly one entry, the new state, per
\* actual state change; no two consecutive entries name the same state; and
\* a setState call with the current state changes neither state nor history
HistoryBoundedAndDeduplicated ==
    [][LET h == orch.stateHistory
           g == orch'.stateHistory
       IN /\ Len(g) <= stateHistorySize
          /\ Len(g) = Min2(orch'.changes, stateHistorySize)
          /\ \A i \in 1..(Len(g) - 1) : g[i] # g[i + 1]
          /\ orch'.next = orch.state => (orch'.state = orch.state /\ g = h)
          /\ orch'.next # orch.state =>
                /\ orch'.state = orch'.next
                /\ g[Len(g)] = orch'.next
                /\ IF Len(h) < stateHistorySize
                   THEN SubSeq(g, 1, Len(g) - 1) = h
                   ELSE SubSeq(g, 1, Len(g) - 1) = SubSeq(h, 2, Len(h))]_vars

\* the buffer is full and has dropped its oldest entry
HistoryBoundedAndDeduplicatedWitness ==
    /\ orch.changes > stateHistorySize
    /\ Len(orch.stateHistory) = stateHistorySize
    /\ orch.state = "READY"


(***************************************************************************)
(* index.js and io.js: two engines and a queue with tasks for two targets  *)
(***************************************************************************)

\* two tasks for one target and a task of lower priority for the other
TargetQueue ==
    [id \in TaskIds |->
        IF id = "T2"
        THEN NewTask(id, 1, <<0, 9>>, "gemini", <<>>, Null, "PENDING", Null)
        ELSE NewTask(id, 2, IF id = "T0" THEN <<0, 9>> ELSE <<1, 0>>,
                     "chatgpt", <<>>, Null, "PENDING", Null)]

InitTargets ==
    /\ InitCommon
    /\ disk = TargetQueue
    /\ lockFile = [tgt \in Targets |-> NoLock]
    /\ pc = [p \in Pids |-> IF p \in Engines THEN "loop" ELSE "dead"]

\* the engine that is watched; the other one is followed up to the
\* collection loop of its first attempt, where it stays
SecondEngine == CHOOSE p \in Engines : \A q \in Engines : q <= p

NextTargets ==
    \/ \E p \in Engines :
          \/ EngineLoad(p)
          \/ EngineLock(p)
          \/ EngineLockDenied(p)
          \/ EngineMarkRunning(p)
          \/ EngineSend(p)
          \/ WatchNotify(p)
    \/ EngineCollect(SecondEngine)
    \/ EngineCatch(SecondEngine)
    \/ EngineFinally(SecondEngine)

\* the watched engine does not stay at the top of its loop while a task is
\* PENDING (it calls loadNextTask again after every sleep), its saves
\* succeed and its own attempts come to an end

SpecTargets ==
    /\ InitTargets /\ [][NextTargets]_vars
    /\ []<>(pc[SecondEngine] # "loop" \/ \A id \in TaskIds : disk[id].status # "PENDING")
    /\ WF_vars(EngineLock(SecondEngine))
    /\ WF_vars(EngineLockDenied(SecondEngine))
    /\ WF_vars(EngineMarkRunning(SecondEngine) /\ pc'[SecondEngine] = "exec")
    /\ WF_vars(EngineSend(SecondEngine))
    /\ WF_vars(EngineCollect(SecondEngine))
    /\ WF_vars(EngineCatch(SecondEngine))
    /\ WF_vars(EngineFinally(SecondEngine))
    /\ WF_vars(WatchNotify(SecondEngine))

\* task id is PENDING while a live engine other than the watched one holds
\* the lock of another target than the task's
PendingBesideLock(id) ==
    /\ disk[id].status = "PENDING"
    /\ \E q \in Engines \ {SecondEngine}, tid \in TaskIds, tgt \in Targets :
          /\ tgt # disk[id].target
          /\ alive[q]
          /\ lockFile[tgt] = LockRec(tid, q)

\* C36: a PENDING task whose target is not the one locked by the other
\* engine is eventually started by the running engine, whether or not that
\* lock is ever released and whatever else is PENDING
OtherTargetNotBlocked ==
    \A id \in TaskIds : PendingBesideLock(id) ~> (disk[id].status # "PENDING")


(***************************************************************************)
(* io.js: getQueue step by step.  A scan has an await between its reads    *)
(* and its assignments, so the watcher and other getQueue calls of the     *)
(* same process (the dashboard server answers requests concurrently) run   *)
(* in between.  The k-th change of the directory leaves T1 with            *)
(* attempts = k.                                                           *)
(***************************************************************************)
MaxChanges == 2        \* changes made to the queue directory

CacheProcess == CHOOSE p \in Engines : \A q \in Engines : p <= q

\* lines 144-146 with the time of the end of the scan as lastFullScan
scanAssignAtEnd(c, p) ==
    /\ globalQueueCache' = [globalQueueCache EXCEPT ![p] = c.results]
    /\ isCacheDirty' = [isCacheDirty EXCEPT ![p] = FALSE]
    /\ lastFullScan' = [lastFullScan EXCEPT ![p] = now]

\* lines 144-146: the assignments that end a scan; now is the constant of
\* line 132, the time the call was made
scanAssign(c, p) ==
    /\ globalQueueCache' = [globalQueueCache EXCEPT ![p] = c.results]
    /\ isCacheDirty' = [isCacheDirty EXCEPT ![p] = FALSE]
    /\ lastFullScan' = [lastFullScan EXCEPT ![p] = c.now]

CacheFrame == UNCHANGED <<lockFile, alive, control, pc, task, lockArg, lockSeen, call,
                          pass, io, pickups, retries, intake, orch, drv, attempt>>

\* lines 131-137: getQueue() is called; the cache is returned at once, or
\* the scan starts
CacheCall(k) ==
    LET p == CacheProcess
        g == getQueue(p)
    IN /\ scan.calls[k].pc = "idle"
       /\ scan' = [scan EXCEPT !.calls[k] =
                      IF g.scanned
                      THEN [IdleCall EXCEPT !.pc = "scanning", !.now = now]
                      ELSE [IdleCall EXCEPT !.pc = "returned", !.now = now,
                                            !.ret = globalQueueCache[p]]]
       /\ UNCHANGED <<disk, now, globalQueueCache, isCacheDirty, lastFullScan>>
       /\ CacheFrame

\* lines 140-142: the files are listed and read, at once or after the
\* retries of a busy file
CacheRead(k) ==
    /\ scan.calls[k].pc = "scanning"
    /\ scan' = [scan EXCEPT !.calls[k].pc = "read", !.calls[k].results = Some(disk)]
    /\ UNCHANGED <<disk, now, globalQueueCache, isCacheDirty, lastFullScan>>
    /\ CacheFrame

\* lines 142-148: Promise.all has settled
CacheFinish(k) ==
    /\ scan.calls[k].pc = "read"
    /\ scanAssign(scan.calls[k], CacheProcess)
    /\ scan' = [scan EXCEPT !.calls[k].pc = "returned",
                            !.calls[k].ret = scan.calls[k].results]
    /\ UNCHANGED <<disk, now>>
    /\ CacheFrame

\* the caller has its answer
CacheDone(k) ==
    /\ scan.calls[k].pc = "returned"
    /\ scan' = [scan EXCEPT !.calls[k] = IdleCall]
    /\ UNCHANGED <<disk, now, globalQueueCache, isCacheDirty, lastFullScan>>
    /\ CacheFrame

\* another process saves T1
CacheChange ==
    /\ Len(scan.changedAt) < MaxChanges
    /\ disk' = saveTask(disk, [disk["T1"] EXCEPT !.attempts = @ + 1])
    /\ scan' = [scan EXCEPT !.changedAt = Append(@, now)]
    /\ UNCHANGED <<now, globalQueueCache, isCacheDirty, lastFullScan>>
    /\ CacheFrame

\* lines 35-37: a notification of the watcher is delivered; it may come late,
\* in the middle of a scan, or never
CacheNotify ==
    /\ scan.changedAt # <<>>
    /\ ~isCacheDirty[CacheProcess]
    /\ isCacheDirty' = [isCacheDirty EXCEPT ![CacheProcess] = TRUE]
    /\ UNCHANGED <<disk, now, globalQueueCache, lastFullScan, scan>>
    /\ CacheFrame

CacheTick ==
    /\ now < MaxTime
    /\ now' = now + 1
    /\ UNCHANGED <<disk, globalQueueCache, isCacheDirty, lastFullScan, scan>>
    /\ CacheFrame

InitCache ==
    /\ InitCommon
    /\ disk = [id \in {"T1"} |-> NewTask("T1", 2, <<0, 9>>, "chatgpt", <<>>, Null,
                                         "PENDING", Null)]
    /\ lockFile = [tgt \in Targets |-> NoLock]
    /\ pc = [p \in Pids |-> IF p \in Engines THEN "loop" ELSE "dead"]

NextCache ==
    \/ \E k \in CacheCalls : CacheCall(k) \/ CacheRead(k) \/ CacheFinish(k) \/ CacheDone(k)
    \/ CacheChange
    \/ CacheNotify
    \/ CacheTick

SpecCache == InitCache /\ [][NextCache]_vars

\* C37: a getQueue call made more than CACHE_HEARTBEAT_MS after a change of
\* the directory returns content that reflects that change, whether its
\* notification was delivered, lost, or overwritten by a scan in progress
StalenessBounded ==
    \A k \in CacheCalls :
        scan.calls[k].pc = "returned" =>
            \A n \in 1..Len(scan.changedAt) :
                scan.calls[k].now - scan.changedAt[n] > CACHE_HEARTBEAT_MS =>
                    scan.calls[k].ret[1]["T1"].attempts >= n

\* a change was made during a scan that had read the directory already, no
\* notification survived, and a later call has returned the changed content
StalenessBoundedWitness ==
    \E k \in CacheCalls :
        /\ scan.calls[k].pc = "returned"
        /\ Len(scan.changedAt) = 1
        /\ scan.calls[k].now - scan.changedAt[1] > CACHE_HEARTBEAT_MS
        /\ lastFullScan[CacheProcess] = scan.calls[k].now
        /\ scan.changedAt[1] > 0
        /\ scan.calls[k].ret[1]["T1"].attempts = 1


(***************************************************************************)
(* index.js: the head of the engine loop as it runs against the io module  *)
(* that io.js exports, with the control file written by the operator and   *)
(* task files written by a producer.                                       *)
(***************************************************************************)

\* io.js, module.exports: the names a caller finds on the io object
IoExports ==
    {"loadNextTask", "saveTask", "deleteTask", "getQueue", "getDna", "saveDna",
     "acquireLock", "releaseLock", "sanitizeFilename", "QUEUE_DIR", "RESPONSE_DIR",
     "setCacheDirty"}

\* calling io.<name>(): a TypeError when io has no such property
IsFunction(name) == name \in IoExports

ResumeFrame == UNCHANGED <<lockFile, alive, now, globalQueueCache, isCacheDirty,
                           lastFullScan, task, lockArg, lockSeen, call, pass, io,
                           pickups, retries, intake, orch, drv, attempt, scan>>

\* lines 86-92, 122: one pass through the head of the loop.  The call of
\* line 89 is inside the try of line 87, so what it throws reaches the
\* catch of line 286.
ResumeLoopHead(p) ==
    /\ alive[p] /\ pc[p] = "loop"
    /\ IF IsFunction("checkControlPause")
       THEN EnginePaused(p) \/ EngineLoad(p)
       ELSE /\ pc' = [pc EXCEPT ![p] = "fatal"]
            /\ UNCHANGED <<disk, control>>
            /\ ResumeFrame

\* lines 286-289: the error is logged, the loop sleeps ten seconds and
\* starts over
ResumeFatal(p) ==
    /\ alive[p] /\ pc[p] = "fatal"
    /\ pc' = [pc EXCEPT ![p] = "loop"]
    /\ UNCHANGED <<disk, control>>
    /\ ResumeFrame

\* a producer drops a new PENDING task without dependencies into the queue
ResumeWriteTask(id) ==
    /\ id \notin DOMAIN disk
    /\ \E tgt \in Targets :
          disk' = saveTask(disk, NewTask(id, 2, <<0, 9>>, tgt, <<>>, Null, "PENDING", Null))
    /\ UNCHANGED <<pc, control>>
    /\ ResumeFrame

InitResume ==
    /\ InitCommon
    /\ disk = <<>>
    /\ lockFile = [tgt \in Targets |-> NoLock]
    /\ pc = [p \in Pids |-> IF p \in Engines THEN "loop" ELSE "dead"]

NextResume ==
    \/ \E p \in Engines : ResumeLoopHead(p) \/ ResumeFatal(p)
    \/ \E id \in TaskIds : ResumeWriteTask(id)
    \/ SetControl

SpecResume ==
    /\ InitResume
    /\ [][NextResume]_vars
    /\ \A p \in Engines : WF_vars(ResumeLoopHead(p)) /\ WF_vars(ResumeFatal(p))

PendingOnDisk(id) == id \in DOMAIN disk /\ disk[id].status = "PENDING"

\* C38: when a task without dependencies or time lock is PENDING while the
\* control file says PAUSED, then once the file says RUN again the task
\* leaves PENDING, unless the operator pauses the engines once more
ResumePicksUp ==
    \A id \in TaskIds :
        [](control = "PAUSED" /\ PendingOnDisk(id) =>
             [](control = "RUN" => <>(control = "PAUSED" \/ ~PendingOnDisk(id))))


(***************************************************************************)
(* server.js: the retry-failed request of the dashboard server, which      *)
(* reads the queue through the cache of its own process, next to an engine *)
(* process that runs loadNextTask passes over the same directory.          *)
(***************************************************************************)
RetryEngine == SchedScheduler
RetryServer == SecondEngine

FailedTask(id, deps) ==
    [NewTask(id, 1, <<0, 9>>, "chatgpt", deps, Null, "FAILED", Null)
        EXCEPT !.attempts = 2, !.last_error = "ERROR", !.history = <<"ERROR">>]

RetryQueues ==
    {[id \in TaskIds |-> CASE id = "T0" -> t0 [] id = "T1" -> t1 [] OTHER -> t2] :
        t0 \in {FailedTask("T0", <<>>),
                NewTask("T0", 1, <<0, 9>>, "chatgpt", <<>>, Null, "DONE", Null),
                [NewTask("T0", 1, <<0, 9>>, "chatgpt", <<>>, Null, "RUNNING", Some(0))
                    EXCEPT !.attempts = 1]},
        t1 \in {NewTask("T1", 2, <<0, 9>>, "chatgpt", <<"T0">>, Null, "PENDING", Null),
                FailedTask("T1", <<"T0">>)},
        t2 \in {FailedTask("T2", <<>>)}
                \cup {NewTask("T2", 1, <<1, 0>>, "gemini", <<>>, Null, st, Null) :
                         st \in {"DONE", "SKIPPED"}}}

RetryFrame == UNCHANGED <<lockFile, alive, control, pc, task, lockArg, lockSeen, call,
                          pass, io, pickups, intake, orch, drv, attempt, scan>>

\* index.js line 122: the engine calls loadNextTask
RetryPass ==
    LET p == RetryEngine
        g == getQueue(p)
    IN \E order \in Orders(DOMAIN g.q) :
         /\ PassEffect(p, g, loadNextTask(g.q, order, now))
         /\ UNCHANGED <<now, retries>>
         /\ RetryFrame

\* server.js lines 170-175: the dashboard asks for the queue and the server
\* scans the directory
RetryPoll ==
    LET p == RetryServer
        g == getQueue(p)
    IN /\ g.scanned
       /\ globalQueueCache' = [globalQueueCache EXCEPT ![p] = Some(g.q)]
       /\ isCacheDirty' = [isCacheDirty EXCEPT ![p] = FALSE]
       /\ lastFullScan' = [lastFullScan EXCEPT ![p] = now]
       /\ UNCHANGED <<disk, now, retries>>
       /\ RetryFrame

\* server.js lines 216-228: the request is served.  The records the filter
\* of line 219 selects from the queue getQueue returned are changed in place
\* and saved one by one (they are the records RetryFailed changes); saveTask
\* marks the cache dirty.
RetryRequest ==
    LET p == RetryServer
        g == getQueue(p)
        q == RetryFailed(g.q)
        failed == {id \in DOMAIN g.q : q[id] # g.q[id]}
    IN /\ retries < MaxRetries
       /\ disk' = SaveAll(disk, q, failed)
       /\ globalQueueCache' = [globalQueueCache EXCEPT ![p] = Some(q)]
       /\ isCacheDirty' = [isCacheDirty EXCEPT ![p] =
                              IF g.scanned THEN failed # {} ELSE @ \/ failed # {}]
       /\ lastFullScan' = [lastFullScan EXCEPT ![p] = IF g.scanned THEN now ELSE @]
       /\ retries' = retries + 1
       /\ UNCHANGED now
       /\ RetryFrame

InitRetry ==
    /\ InitCommon
    /\ disk \in RetryQueues
    /\ lockFile = [tgt \in Targets |-> NoLock]
    /\ pc = [p \in Pids |-> IF p \in Engines THEN "loop" ELSE "dead"]

NextRetry ==
    \/ RetryPass
    \/ RetryPoll
    \/ RetryRequest
    \/ WatchNotify(RetryServer)
    \/ SchedTick

SpecRetry == InitRetry /\ [][NextRetry]_vars

====
